---- MODULE Spec2Model ----
(***************************************************************************)
(* The tile fetch/cache engine of slippery (src/src/tile_cache.rs):        *)
(* TileCache::update, the per-tile entry state machine, the fetch tasks    *)
(* with their admission semaphore, the renderer allocation tasks and the   *)
(* delayed deallocation.                                                   *)
(*                                                                         *)
(* Time is in milliseconds.  A task returned by update is kept in `tasks`  *)
(* until the runtime has run it; the step in which a task ends is the step *)
(* in which update consumes the task's output message (the runtime hands   *)
(* outputs to the update loop in the order in which the tasks end).        *)
(***************************************************************************)
EXTENDS Integers, FiniteSets, Sequences, Bags, TLC

(***************************************************************************)
(* Program constants                                                       *)
(***************************************************************************)
PRUNE_TIME == 60000
PRUNE_THRESH == 1024
PERMITS == 6
CLEANUP_COOLDOWN == 5000
ACQUIRE_TIMEOUT == 100
DEALLOC_DELAY == 100
PRUNE_MIN_ZOOM == 6
KEEP_ALLOCATED_ZOOM == 1
BASE_SIZE == 512
FLOOD_MARGIN == 32

(***************************************************************************)
(* Bounds of the model                                                     *)
(***************************************************************************)
\* the application submits no message while this many tasks are running
MaxTasks == 2
\* a pixel is divided into this many parts
Sub == 4

\* TileCoord (x, y, zoom): one tile per zoom class the engine distinguishes
Tiles == { <<0, 0, 1>>, <<1, 2, 2>>, <<5, 9, 5>>, <<20, 33, 6>> }
\* the distinct tiles of the gate scenario, all of zoom 6
\* (one more than the semaphore has permits)
TilesOfGate == { <<i, 0, 6>> : i \in 1..(PERMITS + 1) }
\* the tiles of the draw scenario: two neighbours of zoom 2 that are visible,
\* their children, their parent and the tile of zoom 0
TilesOfDraw ==
    { <<2, 2, 2>>, <<3, 2, 2>>, <<1, 1, 1>>, <<0, 0, 0>> }
    \cup { <<x, y, 3>> : x \in 4..7, y \in 4..5 }
AllTiles == Tiles \cup TilesOfGate \cup TilesOfDraw
NoTile == <<0, 0, 255>>
\* image handles (distinct fetched byte buffers) and renderer allocations
Handles == {1, 2}
Allocs == {1, 2}
\* the instants (ms since TileCache::new) at which the clock is read
Instants == {0, 100, 5000, 5100, 60000, 60100}
\* those of the gate scenario
GateInstants == {0, 100}

zoom(id) == id[3]

VARIABLES
    wanted,         \* the tile the application's messages are about
    cache,          \* TileCache.cache: tile -> Entry, NoEntry when the key is absent
    others,         \* number of further cache entries, all Loaded, zoom >= 6, last used at 0
    cleanup_timer,  \* TileCache.cleanup_timer
    permits,        \* available permits of HttpFetcher.semaphore
    tasks,          \* bag of the tasks returned by update that have not ended
    now,            \* Instant::now()
    wrapped,        \* an integer overflow has wrapped: the build has no overflow checks
    panicked,       \* an integer overflow has panicked: the build has overflow checks
    msg,            \* argument of the latest call of update (NoMsg: none since the last other step)
    prev,           \* entry of msg.id when that call began
    ret,            \* bag of tasks that call returned
    pruned,         \* number of entries the latest Prune removed (the value it prints)
    result,         \* value the latest query returned (NoResult: the latest step was no query)
    view,           \* arguments of the running call of flood_tiles (NoView: none)
    tiles,          \* its map `tiles`: TileCoord -> Option<Rectangle>
    calls,          \* the calls of flood_tiles_inner that are still to be made, next first
    inserts,        \* bag of the tiles for which flood_tiles_inner has called entry.insert
    visible_tiles,  \* the pairs flood_tiles has returned
    zoom_value,     \* a Zoom (Viewpoint.zoom), in halves of a zoom level
    coord,          \* a TileCoord
    last_call,      \* the latest call of a method of Zoom, TileCoord, Mercator or Projector
    draw_cache,     \* WidgetState.draw_cache: TileCoord -> placement
    next_draw_cache,\* the local `draw_cache` of the running draw resolution
    pending,        \* the pairs of visible_tiles its loop has not reached (NotDrawing: none runs)
    published,      \* bag of the messages it has passed to shell.publish
    resolved,       \* what the latest iteration of its loop did
    movement,       \* WidgetState.movement: Idle, Dragging or Momentum
    zoom_state,     \* WidgetState.zoom: Option<ZoomState>
    cursor,         \* WidgetState.cursor: Option<Point>
    viewpoint       \* MapWidget.viewpoint, as the application hands it back

\* the cache engine and the visibility search
engine == <<wanted, cache, others, cleanup_timer, permits, tasks, now, wrapped,
            panicked, msg, prev, ret, pruned, result>>
flood == <<view, tiles, calls, inserts, visible_tiles>>
\* the values of the coordinate module and the draw resolution of the widget
values == <<zoom_value, coord, last_call>>
draw == <<draw_cache, next_draw_cache, pending, published, resolved, movement,
          zoom_state, cursor, viewpoint>>

vars == <<wanted, cache, others, cleanup_timer, permits, tasks, now, wrapped,
          panicked, msg, prev, ret, pruned, result, view, tiles, calls,
          inserts, visible_tiles, zoom_value, coord, last_call, draw_cache,
          next_draw_cache, pending, published, resolved, movement, zoom_state,
          cursor, viewpoint>>

(***************************************************************************)
(* Data                                                                    *)
(***************************************************************************)
NoEntry == [state |-> "Absent", handle |-> 0, alloc |-> 0, last_used |-> 0]

\* Entry::new(state) and the State variants
Entry(state, handle, alloc, last_used) ==
    [state |-> state, handle |-> handle, alloc |-> alloc, last_used |-> last_used]

\* CacheMessage; a field a variant does not have is 0 / NoTile
Message(type, id, handle, alloc) ==
    [type |-> type, id |-> id, handle |-> handle, alloc |-> alloc]

NoMsg == Message("None", NoTile, 0, 0)
Prune == Message("Prune", NoTile, 0, 0)
Load(id) == Message("Load", id, 0, 0)
Loaded(id, handle) == Message("Loaded", id, handle, 0)
LoadFailed(id) == Message("LoadFailed", id, 0, 0)
Allocate(id) == Message("Allocate", id, 0, 0)
Allocated(id, alloc) == Message("Allocated", id, 0, alloc)
AllocFailed(id) == Message("AllocFailed", id, 0, 0)
Deallocate(id) == Message("Deallocate", id, 0, 0)

\* the messages an application can pass to update about the tiles T
Messages(T) ==
    {Prune}
    \cup {Load(id) : id \in T} \cup {LoadFailed(id) : id \in T}
    \cup {Allocate(id) : id \in T} \cup {AllocFailed(id) : id \in T}
    \cup {Deallocate(id) : id \in T}
    \cup {Loaded(id, h) : id \in T, h \in Handles}
    \cup {Allocated(id, a) : id \in T, a \in Allocs}

\* Task<CacheMessage>: kind is "done" (Task::done(m), m in `m`), "fetch"
\* (fetch_tile, pc "acquire" until the permit is held, then "request"),
\* "alloc" (image::allocate(handle)) or "sleep" (the deallocation delay)
TaskDone(m) == [kind |-> "done", m |-> m, pc |-> "", deadline |-> 0]
TaskFetch(id, pc, deadline) ==
    [kind |-> "fetch", m |-> Load(id), pc |-> pc, deadline |-> deadline]
TaskAlloc(id, handle) ==
    [kind |-> "alloc", m |-> Loaded(id, handle), pc |-> "", deadline |-> 0]
TaskSleep(id, deadline) ==
    [kind |-> "sleep", m |-> Deallocate(id), pc |-> "", deadline |-> deadline]

One(t) == SetToBag({t})
Running == BagToSet(tasks)

\* self.cache.len()
Present == {id \in AllTiles : cache[id] # NoEntry}
CacheLen == Cardinality(Present) + others

Min(a, b) == IF a < b THEN a ELSE b

\* the results of TileCache::should_load and TileCache::should_alloc
should_load(id) == cache[id] = NoEntry
should_alloc(id) == cache[id].state = "Loaded"

\* Option<(Handle, Allocation)>, and a bool as the field `some` alone
Some(handle, alloc) == [some |-> TRUE, handle |-> handle, alloc |-> alloc]
None == [some |-> FALSE, handle |-> 0, alloc |-> 0]
Bool(b) == [some |-> b, handle |-> 0, alloc |-> 0]
NoResult == [some |-> FALSE, handle |-> -1, alloc |-> -1]

\* the result of TileCache::get_drawable
get_drawable(id) ==
    IF cache[id].state = "Allocated"
    THEN Some(cache[id].handle, cache[id].alloc)
    ELSE None

\* Entry::touch on the entry of id
touch(id) == [cache EXCEPT ![id].last_used = now]

TouchedByGetDrawableAlways(id) ==
    IF cache[id] # NoEntry THEN touch(id) ELSE cache

\* the map after a query: should_load and should_alloc touch the entry they
\* find, get_drawable touches the entry it finds Allocated
TouchedByShouldLoad(id) == IF cache[id] # NoEntry THEN touch(id) ELSE cache
TouchedByShouldAlloc(id) == IF cache[id] # NoEntry THEN touch(id) ELSE cache
TouchedByGetDrawable(id) ==
    IF cache[id].state = "Allocated" THEN touch(id) ELSE cache

(***************************************************************************)
(* TileCache::update                                                       *)
(***************************************************************************)
SchedulePruneNoCooldown == CacheLen > PRUNE_THRESH

\* "Periodically schedule a prune": the condition at the head of update
SchedulePrune == CacheLen > PRUNE_THRESH /\ now - cleanup_timer > CLEANUP_COOLDOWN

CleanupTask == IF SchedulePrune THEN One(TaskDone(Prune)) ELSE EmptyBag

RetainByZoomAndAge(id) ==
    \/ zoom(id) < PRUNE_MIN_ZOOM
    \/ now < cache[id].last_used
    \/ now - cache[id].last_used < PRUNE_TIME

\* the value of `retain` the closure of the Prune arm computes for an entry
Retain(id) ==
    \/ cache[id].state \in {"Loading", "Allocating"}
    \/ zoom(id) < PRUNE_MIN_ZOOM
    \/ now < cache[id].last_used
    \/ now - cache[id].last_used < PRUNE_TIME

\* the same for one of the `others` (Loaded, zoom >= 6, last used at 0)
RetainOther == now < PRUNE_TIME

\* prune_count >= prune_target can become true; with start_size < PRUNE_THRESH
\* a wrapping build has prune_target = 2^w - (PRUNE_THRESH - start_size),
\* which no count of entries reaches
PruneLimit(start_size, eligible) ==
    IF start_size >= PRUNE_THRESH
    THEN Min(start_size - PRUNE_THRESH, eligible)
    ELSE eligible

\* one arm of the match: the new map and the task the arm evaluates to
Arm(c, t) == [cache |-> c, task |-> t]

OnLoadUnchecked(id) ==
    Arm([cache EXCEPT ![id] = Entry("Loading", 0, 0, now)],
        One(TaskFetch(id, "acquire", now + ACQUIRE_TIMEOUT)))

OnLoad(id) ==
    IF cache[id] # NoEntry
    THEN Arm(cache, EmptyBag)
    ELSE Arm([cache EXCEPT ![id] = Entry("Loading", 0, 0, now)],
             One(TaskFetch(id, "acquire", now + ACQUIRE_TIMEOUT)))

OnLoadedNoFollowUp(id, handle) ==
    Arm([cache EXCEPT ![id] = Entry("Loaded", handle, 0, now)], EmptyBag)

OnLoaded(id, handle) ==
    Arm([cache EXCEPT ![id] = Entry("Loaded", handle, 0, now)],
        One(TaskDone(Allocate(id))))

OnLoadFailedIgnored(id) == Arm(cache, EmptyBag)

OnLoadFailedAnyState(id) ==
    Arm([cache EXCEPT ![id] = NoEntry], EmptyBag)

OnLoadFailed(id) ==
    IF cache[id].state = "Loading"
    THEN Arm([cache EXCEPT ![id] = NoEntry], EmptyBag)
    ELSE Arm(cache, EmptyBag)

OnAllocateAgain(id) ==
    IF cache[id].state \in {"Loaded", "Allocating"}
    THEN Arm([cache EXCEPT ![id] = Entry("Allocating", cache[id].handle, 0, now)],
             One(TaskAlloc(id, cache[id].handle)))
    ELSE Arm(cache, EmptyBag)

OnAllocate(id) ==
    IF cache[id].state = "Loaded"
    THEN Arm([cache EXCEPT ![id] = Entry("Allocating", cache[id].handle, 0, now)],
             One(TaskAlloc(id, cache[id].handle)))
    ELSE Arm(cache, EmptyBag)

AutoDeallocAboveTwo(id) == zoom(id) > KEEP_ALLOCATED_ZOOM + 1

\* the delayed Deallocate is scheduled "except for the lowest zoom levels"
AutoDealloc(id) == zoom(id) > KEEP_ALLOCATED_ZOOM

OnAllocatedOverwrite(id, alloc) ==
    IF cache[id].state \in {"Allocating", "Loaded", "Allocated"}
    THEN Arm([cache EXCEPT ![id] = Entry("Allocated", cache[id].handle, alloc, now)],
             IF AutoDealloc(id)
             THEN One(TaskSleep(id, now + DEALLOC_DELAY))
             ELSE EmptyBag)
    ELSE Arm(cache, EmptyBag)

OnAllocated(id, alloc) ==
    IF cache[id].state \in {"Allocating", "Loaded"}
    THEN Arm([cache EXCEPT ![id] = Entry("Allocated", cache[id].handle, alloc, now)],
             IF AutoDealloc(id)
             THEN One(TaskSleep(id, now + DEALLOC_DELAY))
             ELSE EmptyBag)
    ELSE Arm(cache, EmptyBag)

OnAllocFailedDiscard(id) ==
    IF cache[id].state = "Allocating"
    THEN Arm([cache EXCEPT ![id] = NoEntry], EmptyBag)
    ELSE Arm(cache, EmptyBag)

OnAllocFailed(id) ==
    IF cache[id].state = "Allocating"
    THEN Arm([cache EXCEPT ![id] =
                 Entry("Loaded", cache[id].handle, 0, cache[id].last_used)],
             EmptyBag)
    ELSE Arm(cache, EmptyBag)

OnDeallocate(id) ==
    IF cache[id].state = "Allocated"
    THEN Arm([cache EXCEPT ![id] =
                 Entry("Loaded", cache[id].handle, 0, cache[id].last_used)],
             EmptyBag)
    ELSE Arm(cache, EmptyBag)

OnMessage(m) ==
    CASE m.type = "Load" -> OnLoad(m.id)
      [] m.type = "Loaded" -> OnLoaded(m.id, m.handle)
      [] m.type = "LoadFailed" -> OnLoadFailed(m.id)
      [] m.type = "Allocate" -> OnAllocate(m.id)
      [] m.type = "Allocated" -> OnAllocated(m.id, m.alloc)
      [] m.type = "AllocFailed" -> OnAllocFailed(m.id)
      [] m.type = "Deallocate" -> OnDeallocate(m.id)

\* the Prune arm.  start_size - PRUNE_THRESH underflows below the threshold:
\* a build with overflow checks (debug) panics there, a build without
\* (release) wraps; which build runs shows at the first underflow.
\* HashMap::retain visits the entries in an arbitrary order, so which of the
\* removable entries go is free once prune_target limits their number.
OnPrune(rest) ==
    LET start_size == CacheLen
        removable == {id \in Present : ~Retain(id)}
        removableOthers == IF RetainOther THEN 0 ELSE others
        count == PruneLimit(start_size, Cardinality(removable) + removableOthers)
    IN  \/ /\ start_size < PRUNE_THRESH
           /\ ~wrapped
           /\ panicked' = TRUE
           /\ tasks' = rest
           /\ ret' = EmptyBag
           /\ UNCHANGED <<cache, others, pruned, wrapped>>
        \/ \E R \in SUBSET removable :
                /\ count - Cardinality(R) \in 0..removableOthers
                /\ cache' = [id \in AllTiles |-> IF id \in R THEN NoEntry ELSE cache[id]]
                /\ others' = others - (count - Cardinality(R))
                /\ pruned' = count
                /\ tasks' = rest (+) CleanupTask
                /\ ret' = CleanupTask
                /\ wrapped' = (wrapped \/ start_size < PRUNE_THRESH)
                /\ UNCHANGED panicked

\* update(m), called while the tasks `rest` are running
Update(m, rest) ==
    /\ msg' = m
    /\ result' = NoResult
    /\ prev' = IF m.id \in AllTiles THEN cache[m.id] ELSE NoEntry
    /\ cleanup_timer' = IF SchedulePrune THEN now ELSE cleanup_timer
    /\ IF m.type = "Prune"
       THEN OnPrune(rest)
       ELSE /\ cache' = OnMessage(m).cache
            /\ tasks' = rest (+) CleanupTask (+) OnMessage(m).task
            /\ ret' = CleanupTask (+) OnMessage(m).task
            /\ UNCHANGED <<others, panicked, pruned, wrapped>>
    /\ UNCHANGED <<now, wanted>>
    /\ UNCHANGED <<flood, values, draw>>

\* a step that is no call of update
NoUpdate ==
    /\ msg' = NoMsg
    /\ prev' = NoEntry
    /\ ret' = EmptyBag
    /\ result' = NoResult
    /\ UNCHANGED <<cache, others, cleanup_timer, wrapped, panicked, pruned,
                   wanted>>
    /\ UNCHANGED <<flood, values, draw>>

(***************************************************************************)
(* The steps                                                               *)
(***************************************************************************)
\* the application passes a message about the wanted tile to update
Submit(m) ==
    /\ ~panicked
    /\ BagCardinality(tasks) < MaxTasks
    /\ m.type = "Prune" \/ m.id = wanted
    /\ Update(m, tasks)
    /\ UNCHANGED permits

\* Task::done(m) is run: update receives m
RunDone(t) ==
    /\ ~panicked
    /\ t.kind = "done"
    /\ Update(t.m, tasks (-) One(t))
    /\ UNCHANGED permits

FetchAcquireUngated(t) ==
    /\ ~panicked
    /\ t.kind = "fetch" /\ t.pc = "acquire"
    /\ permits' = permits - 1
    /\ tasks' = (tasks (-) One(t)) (+) One(TaskFetch(t.m.id, "request", 0))
    /\ now' = now
    /\ NoUpdate

\* fetch_tile: semaphore.acquire() returns a permit
FetchAcquire(t) ==
    /\ ~panicked
    /\ t.kind = "fetch" /\ t.pc = "acquire"
    /\ permits > 0
    /\ permits' = permits - 1
    /\ tasks' = (tasks (-) One(t)) (+) One(TaskFetch(t.m.id, "request", 0))
    /\ now' = now
    /\ NoUpdate

FetchTimeoutQueued(t) ==
    /\ ~panicked
    /\ t.kind = "fetch" /\ t.pc = "acquire"
    /\ permits = 0
    /\ now >= t.deadline
    /\ tasks' = (tasks (-) One(t)) (+) One(TaskFetch(t.m.id, "acquire", now + ACQUIRE_TIMEOUT))
    /\ now' = now
    /\ NoUpdate
    /\ UNCHANGED permits

\* fetch_tile: the timeout elapses with no permit to take: SemaphoreTimeout
FetchTimeout(t) ==
    /\ ~panicked
    /\ t.kind = "fetch" /\ t.pc = "acquire"
    /\ permits = 0
    /\ now >= t.deadline
    /\ Update(LoadFailed(t.m.id), tasks (-) One(t))
    /\ UNCHANGED permits

\* fetch_tile: the request succeeds with the bytes `handle`; _permit is dropped
FetchOk(t, handle) ==
    /\ ~panicked
    /\ t.kind = "fetch" /\ t.pc = "request"
    /\ permits' = permits + 1
    /\ Update(Loaded(t.m.id, handle), tasks (-) One(t))

FetchErrLeak(t) ==
    /\ ~panicked
    /\ t.kind = "fetch" /\ t.pc = "request"
    /\ Update(LoadFailed(t.m.id), tasks (-) One(t))
    /\ UNCHANGED permits

\* fetch_tile: the request fails or has no success status; _permit is dropped
FetchErr(t) ==
    /\ ~panicked
    /\ t.kind = "fetch" /\ t.pc = "request"
    /\ permits' = permits + 1
    /\ Update(LoadFailed(t.m.id), tasks (-) One(t))

\* image::allocate(handle) succeeds with the allocation `alloc`
AllocOk(t, alloc) ==
    /\ ~panicked
    /\ t.kind = "alloc"
    /\ Update(Allocated(t.m.id, alloc), tasks (-) One(t))
    /\ UNCHANGED permits

\* image::allocate(handle) fails
AllocErr(t) ==
    /\ ~panicked
    /\ t.kind = "alloc"
    /\ Update(AllocFailed(t.m.id), tasks (-) One(t))
    /\ UNCHANGED permits

\* the deallocation delay has passed
SleepDone(t) ==
    /\ ~panicked
    /\ t.kind = "sleep"
    /\ now >= t.deadline
    /\ Update(Deallocate(t.m.id), tasks (-) One(t))
    /\ UNCHANGED permits

\* a query of the widget about the tile id: `call` names the function, `c` is
\* the map it leaves and `r` the value it returns
Query(call, id, c, r) ==
    /\ ~panicked
    /\ id = wanted
    /\ msg' = Message(call, id, 0, 0)
    /\ prev' = cache[id]
    /\ cache' = c
    /\ result' = r
    /\ ret' = EmptyBag
    /\ UNCHANGED <<wanted, others, cleanup_timer, permits, tasks, now, wrapped,
                   panicked, pruned>>
    /\ UNCHANGED <<flood, values, draw>>

ShouldLoad(id) == Query("should_load", id, TouchedByShouldLoad(id), Bool(should_load(id)))
ShouldAlloc(id) == Query("should_alloc", id, TouchedByShouldAlloc(id), Bool(should_alloc(id)))
GetDrawable(id) == Query("get_drawable", id, TouchedByGetDrawable(id), get_drawable(id))

\* time passes
Tick(t) ==
    /\ ~panicked
    /\ t > now
    /\ now' = t
    /\ NoUpdate
    /\ UNCHANGED <<permits, tasks>>

\* no call of flood_tiles has been made
NoView == [position |-> <<0, 0>>, zoom |-> 0, tile_size |-> 0, max_zoom |-> 0,
           bounds |-> <<0, 0>>]
NoFlood ==
    /\ view = NoView
    /\ tiles = <<>>
    /\ calls = <<>>
    /\ inserts = EmptyBag
    /\ visible_tiles = {}

\* Zoom::default() and TileCoord::ZERO; no method has been called
DefaultZoom == 32
ZERO == <<0, 0, 0>>
NoCall == [op |-> "none", arg |-> <<>>, ret |-> <<>>]
NoValues ==
    /\ zoom_value = DefaultZoom
    /\ coord = ZERO
    /\ last_call = NoCall

\* DrawCache::new(); no draw resolution has run
NotDrawing == { <<NoTile, [x |-> 0, y |-> 0, width |-> 0, height |-> 0]>> }
NoResolved == [tile |-> NoTile, direct |-> FALSE, children |-> <<>>,
               ancestors |-> <<>>, placed |-> {}, allocate |-> {}]
\* WidgetState::default(), with the viewpoint at the centre of the world and
\* at zoom 16; a velocity is in px/s, an instant in ms, a position of the
\* viewpoint in thousandths of a pixel (pixel space at its zoom) and a zoom
\* in thousandths of a level
NoPoint == <<-1, -1>>
Idle == [state |-> "Idle", velocity |-> <<0, 0>>, last_time |-> 0,
         mercator |-> <<0, 0>>, start_cursor |-> NoPoint, last_cursor |-> NoPoint]
NoZoomState == [kind |-> "None", start_zoom |-> 0, end_zoom |-> 0, start_time |-> 0,
                duration |-> 0]
NoMotion ==
    /\ movement = Idle
    /\ zoom_state = NoZoomState
    /\ cursor = NoPoint
    /\ viewpoint = [position |-> <<0, 0>>, zoom |-> 16000]

NoDraw ==
    /\ NoMotion
    /\ draw_cache = <<>>
    /\ next_draw_cache = <<>>
    /\ pending = NotDrawing
    /\ published = EmptyBag
    /\ resolved = NoResolved

\* the state TileCache::new returns, with `n` further entries in the cache
\* when n > 0: the cache as a prune at time 0 left it
Start(n) ==
    /\ cache = [id \in AllTiles |-> NoEntry]
    /\ others = n
    /\ cleanup_timer = 0
    /\ permits = PERMITS
    /\ tasks = EmptyBag
    /\ now = 0
    /\ wrapped = FALSE
    /\ panicked = FALSE
    /\ msg = NoMsg
    /\ prev = NoEntry
    /\ ret = EmptyBag
    /\ pruned = 0
    /\ result = NoResult
    /\ NoFlood
    /\ NoValues
    /\ NoDraw

Init ==
    /\ Start(0)
    /\ wanted \in Tiles

\* fewer than PERMITS fetch tasks run at a time here, so that no acquire
\* times out: FetchTimeout is a step of the gate scenario below
Next ==
    \/ \E m \in Messages(Tiles) : Submit(m)
    \/ \E t \in Running : RunDone(t)
    \/ \E t \in Running : FetchAcquire(t)
    \/ \E t \in Running, h \in Handles : FetchOk(t, h)
    \/ \E t \in Running : FetchErr(t)
    \/ \E t \in Running, a \in Allocs : AllocOk(t, a)
    \/ \E t \in Running : AllocErr(t)
    \/ \E t \in Running : SleepDone(t)
    \/ \E t \in Instants : Tick(t)
    \/ \E id \in Tiles : ShouldLoad(id)
    \/ \E id \in Tiles : ShouldAlloc(id)
    \/ \E id \in Tiles : GetDrawable(id)

Spec == Init /\ [][Next]_vars

(***************************************************************************)
(* The same engine with a cache at the prune threshold                     *)
(***************************************************************************)
InitPrune ==
    /\ Start(PRUNE_THRESH)
    /\ wanted \in Tiles

SpecPrune == InitPrune /\ [][Next]_vars

(***************************************************************************)
(* The gate scenario: one pass of the widget has published a Load for each *)
(* of PERMITS + 1 distinct visible tiles and update has handled them at    *)
(* time 0; their fetch tasks run.                                          *)
(***************************************************************************)
InitGate ==
    /\ wanted = NoTile
    /\ cache = [id \in AllTiles |->
                    IF id \in TilesOfGate THEN Entry("Loading", 0, 0, 0) ELSE NoEntry]
    /\ others = 0
    /\ cleanup_timer = 0
    /\ permits = PERMITS
    /\ tasks = SetToBag({TaskFetch(id, "acquire", ACQUIRE_TIMEOUT) : id \in TilesOfGate})
    /\ now = 0
    /\ wrapped = FALSE
    /\ panicked = FALSE
    /\ msg = NoMsg
    /\ prev = NoEntry
    /\ ret = EmptyBag
    /\ pruned = 0
    /\ result = NoResult
    /\ NoFlood
    /\ NoValues
    /\ NoDraw

NextGate ==
    \/ \E t \in Running : FetchAcquire(t)
    \/ \E t \in Running : FetchTimeout(t)
    \/ \E t \in Running : FetchOk(t, 1)
    \/ \E t \in Running : FetchErr(t)
    \/ \E t \in GateInstants : Tick(t)

SpecGate == InitGate /\ [][NextGate]_vars

\* one of the tiles of the gate scenario (they are interchangeable)
Queued == <<PERMITS + 1, 0, 6>>

\* the clock advances and the runtime polls the fetch task of Queued when its
\* acquire or its timeout is ready; nothing else is sure to happen: the other
\* tasks may never be polled and a request may stay unanswered forever
FairGate ==
    /\ SpecGate
    /\ WF_vars(\E t \in GateInstants : Tick(t))
    /\ WF_vars(\E t \in Running :
                  t.m.id = Queued /\ (FetchAcquire(t) \/ FetchTimeout(t)))

(***************************************************************************)
(* The visibility search of the widget (src/src/map_widget.rs):            *)
(* MapWidget::flood_tiles.  Lengths and coordinates are integers in units  *)
(* of 1/Sub pixel; a Mercator coordinate m in [-1, 1] is held as the       *)
(* pixel-space length m * pixels_half_width.  A zoom is held in halves     *)
(* (zoom 2.5 is 5), and the world is (724 + 4/Sub) * 2^k pixels wide at a  *)
(* zoom of k + 1/2 (512 * 2^(1/2) = 724.08): the corners of the tiles are  *)
(* whole pixels at a whole zoom and fall between pixels at other zooms.    *)
(***************************************************************************)
Rectangle(x, y, width, height) == [x |-> x, y |-> y, width |-> width, height |-> height]

\* iced::Rectangle::center, expand and intersects (a positive intersection)
center(r) == <<r.x + r.width \div 2, r.y + r.height \div 2>>
expand(r, a) == Rectangle(r.x - a, r.y - a, r.width + 2 * a, r.height + 2 * a)
Max(a, b) == IF a > b THEN a ELSE b
intersects(a, b) ==
    /\ Min(a.x + a.width, b.x + b.width) - Max(a.x, b.x) > 0
    /\ Min(a.y + a.height, b.y + b.height) - Max(a.y, b.y) > 0

total_tiles(z) == 2 ^ z

\* f64::log2 of a power of two, f64::round of a zoom in halves
RECURSIVE log2(_)
log2(n) == IF n <= 1 THEN 0 ELSE 1 + log2(n \div 2)
round(z2) == (z2 + 1) \div 2

round_floor(q) == Sub * (q \div Sub)

\* RoundCeil::round_ceil: (self + 0.5).floor()
round_ceil(q) == Sub * ((2 * q + Sub) \div (2 * Sub))

\* pixels_half_width of Mercator::into_pixel_space at the zoom z2 / 2
pixels_half_width(z2) ==
    IF z2 % 2 = 0
    THEN 2 ^ (z2 \div 2 - 1) * BASE_SIZE * Sub
    ELSE 2 ^ ((z2 - 1) \div 2 - 1) * (724 * Sub + 4)

TileCoordUnclamped(x, y, z) == <<x, y, z>>

\* TileCoord::new clamps x and y to the grid of the zoom
TileCoord(x, y, z) ==
    <<Max(0, Min(x, total_tiles(z) - 1)), Max(0, Min(y, total_tiles(z) - 1)), z>>

\* Mercator::tile_id of the viewpoint position
tile_id(v, z) ==
    LET h == pixels_half_width(v.zoom)
    IN  TileCoord(((v.position[1] + h) * total_tiles(z)) \div (2 * h),
                  ((v.position[2] + h) * total_tiles(z)) \div (2 * h), z)

neighborsNoWest(id) ==
    LET n == total_tiles(id[3])
    IN  (IF id[2] >= 1 THEN << <<id[1], id[2] - 1, id[3]>> >> ELSE <<>>)
        \o (IF id[1] < n - 1 THEN << <<id[1] + 1, id[2], id[3]>> >> ELSE <<>>)
        \o (IF id[2] < n - 1 THEN << <<id[1], id[2] + 1, id[3]>> >> ELSE <<>>)

\* TileCoord::neighbors, flattened: north, east, south, west where they exist
neighbors(id) ==
    LET n == total_tiles(id[3])
    IN  (IF id[2] >= 1 THEN << <<id[1], id[2] - 1, id[3]>> >> ELSE <<>>)
        \o (IF id[1] < n - 1 THEN << <<id[1] + 1, id[2], id[3]>> >> ELSE <<>>)
        \o (IF id[2] < n - 1 THEN << <<id[1], id[2] + 1, id[3]>> >> ELSE <<>>)
        \o (IF id[1] >= 1 THEN << <<id[1] - 1, id[2], id[3]>> >> ELSE <<>>)

\* TileCoord::to_mercator followed by Mercator::into_pixel_space: the origin
\* corner of the tile in pixel space
tile_into_pixel_space(v, id) ==
    LET h == pixels_half_width(v.zoom)
    IN  <<(id[1] * 2 * h) \div total_tiles(id[3]) - h,
          (id[2] * 2 * h) \div total_tiles(id[3]) - h>>

\* Projector::pixel_space_into_screen_space
pixel_space_into_screen_space(v, point) ==
    <<center(v.bounds)[1] + (point[1] - round_ceil(v.position[1])),
      center(v.bounds)[2] + (point[2] - round_ceil(v.position[2]))>>

\* MapWidget::position_of_tile: tile_size * 2^scale_offset * 2^(zoom - tile
\* zoom) is BASE_SIZE * 2^zoom / 2^(tile zoom), the width of the world in
\* pixels divided by the tiles of the zoom of the tile
position_of_tile(v, id) ==
    LET size == (2 * pixels_half_width(v.zoom)) \div total_tiles(id[3])
        screen_pos == pixel_space_into_screen_space(v, tile_into_pixel_space(v, id))
    IN  Rectangle(screen_pos[1], screen_pos[2], size, size)

\* the tile flood_tiles starts from
central_tile_id(v) ==
    LET scale_offset == log2(BASE_SIZE \div v.tile_size)
        scaled_zoom == Min(v.zoom + 2 * scale_offset, 2 * v.max_zoom)
    IN  tile_id(v, round(scaled_zoom))

\* Option<Rectangle>
SomeRect(r) == [some |-> TRUE, rect |-> r]
NoneRect == [some |-> FALSE, rect |-> Rectangle(0, 0, 0, 0)]

\* the viewport the widget passes to flood_tiles: bounds.expand(32)
flood_area(v) == expand(v.bounds, FLOOD_MARGIN * Sub)

\* the viewpoints, tile sources and bounds flood_tiles is called with
ViewZooms == {4, 5, 6}
TileSizes == {256, 512}
MaxZooms == {3, 19}
Bounds == {Rectangle(0, 0, 2 * Sub, 2 * Sub), Rectangle(0, 0, 800 * Sub, 600 * Sub),
           Rectangle(0, 0, 3000 * Sub, 400 * Sub)}
Offsets(h) == {-h, 1 - h, -1, 0, h \div 8, 3 * (h \div 8), 300 * Sub + 1, h}
Views ==
    UNION { { [position |-> <<x, y>>, zoom |-> z, tile_size |-> ts, max_zoom |-> mz,
               bounds |-> b] :
                 x \in Offsets(pixels_half_width(z)),
                 y \in Offsets(pixels_half_width(z)) \ {1 - pixels_half_width(z)},
                 ts \in TileSizes, mz \in MaxZooms, b \in Bounds } :
            z \in ViewZooms }

\* flood_tiles is called: the first call of flood_tiles_inner is due
FloodTiles(v) ==
    /\ view = NoView
    /\ view' = v
    /\ calls' = << central_tile_id(v) >>
    /\ UNCHANGED <<tiles, inserts, visible_tiles>>
    /\ UNCHANGED <<engine, values, draw>>

FloodTilesInnerUnvisited ==
    /\ calls # <<>>
    /\ LET id == Head(calls)
           rectangle == position_of_tile(view, id)
       IN  IF intersects(flood_area(view), rectangle)
           THEN /\ tiles' = [t \in DOMAIN tiles \cup {id} |->
                                IF t = id THEN SomeRect(rectangle) ELSE tiles[t]]
                /\ inserts' = inserts (+) One(id)
                /\ calls' = neighbors(id) \o Tail(calls)
           ELSE /\ tiles' = [t \in DOMAIN tiles \cup {id} |->
                                IF t = id THEN NoneRect ELSE tiles[t]]
                /\ inserts' = inserts (+) One(id)
                /\ calls' = Tail(calls)
    /\ UNCHANGED <<view, visible_tiles>>
    /\ UNCHANGED <<engine, values, draw>>

\* one call of flood_tiles_inner, up to its calls of itself
FloodTilesInner ==
    /\ calls # <<>>
    /\ LET id == Head(calls)
           rectangle == position_of_tile(view, id)
       IN  IF id \in DOMAIN tiles
           THEN /\ calls' = Tail(calls)
                /\ UNCHANGED <<tiles, inserts>>
           ELSE IF intersects(flood_area(view), rectangle)
           THEN /\ tiles' = [t \in DOMAIN tiles \cup {id} |->
                                IF t = id THEN SomeRect(rectangle) ELSE tiles[t]]
                /\ inserts' = inserts (+) One(id)
                /\ calls' = neighbors(id) \o Tail(calls)
           ELSE /\ tiles' = [t \in DOMAIN tiles \cup {id} |->
                                IF t = id THEN NoneRect ELSE tiles[t]]
                /\ inserts' = inserts (+) One(id)
                /\ calls' = Tail(calls)
    /\ UNCHANGED <<view, visible_tiles>>
    /\ UNCHANGED <<engine, values, draw>>

FloodCollectAll ==
    /\ view # NoView
    /\ calls = <<>>
    /\ tiles # <<>>
    /\ visible_tiles' = {<<id, tiles[id].rect>> : id \in DOMAIN tiles}
    /\ tiles' = <<>>
    /\ UNCHANGED <<view, calls, inserts>>
    /\ UNCHANGED <<engine, values, draw>>

\* the recursion has returned: flood_tiles drains the map into its result
FloodCollect ==
    /\ view # NoView
    /\ calls = <<>>
    /\ tiles # <<>>
    /\ visible_tiles' = {<<id, tiles[id].rect>> : id \in {t \in DOMAIN tiles : tiles[t].some}}
    /\ tiles' = <<>>
    /\ UNCHANGED <<view, calls, inserts>>
    /\ UNCHANGED <<engine, values, draw>>

InitFlood ==
    /\ Start(0)
    /\ wanted = NoTile

NextFlood ==
    \/ \E v \in Views : FloodTiles(v)
    \/ FloodTilesInner
    \/ FloodCollect

SpecFlood == InitFlood /\ [][NextFlood]_vars

\* the widget's update runs flood_tiles to its end
FairFlood == SpecFlood /\ WF_vars(FloodTilesInner \/ FloodCollect)

(***************************************************************************)
(* Properties                                                              *)
(***************************************************************************)
\* the tasks of a bag that satisfy nothing but their kind and tile
Count(bag, kind, id) ==
    LET S == {t \in BagToSet(bag) : t.kind = kind /\ t.m.id = id}
        RECURSIVE Sum(_)
        Sum(X) == IF X = {} THEN 0
                  ELSE LET x == CHOOSE y \in X : TRUE
                       IN  CopiesIn(x, bag) + Sum(X \ {x})
    IN  Sum(S)

\* the fetch tasks that hold a permit of the semaphore
Holding ==
    LET S == {t \in Running : t.kind = "fetch" /\ t.pc = "request"}
        RECURSIVE Sum(_)
        Sum(X) == IF X = {} THEN 0
                  ELSE LET x == CHOOSE y \in X : TRUE
                       IN  CopiesIn(x, tasks) + Sum(X \ {x})
    IN  Sum(S)

Waiting == {t \in Running : t.kind = "fetch" /\ t.pc = "acquire"}

\* C1: in every reachable state at most 6 fetch tasks hold a permit of the
\* admission gate, with more fetch tasks than permits and every interleaving
C1_GateBound == Holding <= PERMITS

\* all permits are held while a further fetch task waits for one
C1_Witness == Holding = PERMITS /\ Waiting # {}

\* C2: Load on a tile with no entry inserts a Loading entry and starts exactly
\* one fetch task for the tile; on a tile with an entry (in any state) it
\* leaves the entry unchanged and starts no task
C2_Load ==
    msg.type = "Load" =>
        IF prev = NoEntry
        THEN /\ cache[msg.id] = Entry("Loading", 0, 0, now)
             /\ ret = One(TaskFetch(msg.id, "acquire", now + ACQUIRE_TIMEOUT))
             /\ Count(tasks, "fetch", msg.id) >= 1
        ELSE /\ cache[msg.id] = prev
             /\ ret = EmptyBag

C2_Witness ==
    /\ msg.type = "Load" /\ prev = NoEntry
    /\ cache[msg.id].state = "Loading"
    /\ Count(ret, "fetch", msg.id) = 1

\* C3: Loaded on a Loading entry sets it to Loaded(handle) and returns exactly
\* one follow-up Allocate for the tile, whose handling moves the entry to
\* Allocating with no request from the widget
C3_LoadedFollowUp ==
    (msg.type = "Loaded" /\ prev.state = "Loading") =>
        /\ cache[msg.id] = Entry("Loaded", msg.handle, 0, now)
        /\ ret = One(TaskDone(Allocate(msg.id)))
        /\ BagIn(TaskDone(Allocate(msg.id)), tasks)
        /\ OnMessage(Allocate(msg.id)).cache[msg.id] =
               Entry("Allocating", msg.handle, 0, now)

C3_Witness ==
    /\ msg.type = "Loaded" /\ prev.state = "Loading"
    /\ cache[msg.id].state = "Loaded"
    /\ BagIn(TaskDone(Allocate(msg.id)), tasks)

\* C4: LoadFailed removes a Loading entry, after which should_load is true
\* and a Load starts a new fetch; in every other case it changes nothing
C4_LoadFailed ==
    msg.type = "LoadFailed" =>
        /\ ret = EmptyBag
        /\ IF prev.state = "Loading"
           THEN /\ cache[msg.id] = NoEntry
                /\ should_load(msg.id)
                /\ Count(OnMessage(Load(msg.id)).task, "fetch", msg.id) = 1
                /\ OnMessage(Load(msg.id)).cache[msg.id].state = "Loading"
           ELSE cache[msg.id] = prev

C4_Witness ==
    /\ msg.type = "LoadFailed" /\ prev.state = "Loading"
    /\ cache[msg.id] = NoEntry

\* C5: a Loaded message handled while the entry is not Loading (absent,
\* Loaded, Allocating or Allocated) is ignored: the entry is as before
C5_StaleLoadedIgnored ==
    (msg.type = "Loaded" /\ prev.state # "Loading") =>
        /\ cache[msg.id] = prev
        /\ ret = EmptyBag

\* C6: Allocate moves a Loaded entry to Allocating with the same handle and
\* starts one allocation; in every other case it changes nothing and starts
\* none, in particular while an allocation is in flight (Allocating)
C6_Allocate ==
    msg.type = "Allocate" =>
        IF prev.state = "Loaded"
        THEN /\ cache[msg.id] = Entry("Allocating", prev.handle, 0, now)
             /\ ret = One(TaskAlloc(msg.id, prev.handle))
        ELSE /\ cache[msg.id] = prev
             /\ ret = EmptyBag

C6_Witness ==
    /\ msg.type = "Allocate" /\ prev.state = "Allocating"
    /\ Count(tasks, "alloc", msg.id) = 1
    /\ ret = EmptyBag

\* C7: Allocated is a no-op (no state change, no follow-up) on an absent,
\* Loading or Allocated entry; an Allocating or Loaded entry becomes
\* Allocated with the message's allocation and its own handle
C7_Allocated ==
    msg.type = "Allocated" =>
        IF prev.state \in {"Allocating", "Loaded"}
        THEN cache[msg.id] = Entry("Allocated", prev.handle, msg.alloc, now)
        ELSE /\ cache[msg.id] = prev
             /\ ret = EmptyBag

C7_Witness ==
    /\ msg.type = "Allocated" /\ prev.state = "Allocated"
    /\ prev.alloc # msg.alloc
    /\ cache[msg.id] = prev

\* C8: AllocFailed reverts an Allocating entry to Loaded with the same
\* handle, so that should_alloc is true again and the entry is kept; in
\* every other case it changes nothing
C8_AllocFailed ==
    msg.type = "AllocFailed" =>
        /\ ret = EmptyBag
        /\ IF prev.state = "Allocating"
           THEN /\ cache[msg.id] = Entry("Loaded", prev.handle, 0, prev.last_used)
                /\ should_alloc(msg.id)
                /\ ~should_load(msg.id)
           ELSE cache[msg.id] = prev

C8_Witness ==
    /\ msg.type = "AllocFailed" /\ prev.state = "Allocating"
    /\ cache[msg.id].state = "Loaded"
    /\ cache[msg.id].handle = prev.handle

\* C9 as stated: every entry that enters Allocated, whatever the zoom of its
\* tile, gets a Deallocate scheduled
C9_DeallocateAnyZoom ==
    (msg.type = "Allocated" /\ prev.state \in {"Allocating", "Loaded"}) =>
        Count(ret, "sleep", msg.id) = 1

\* C9 amended: an entry that enters Allocated for a tile of zoom > 1 gets a
\* Deallocate scheduled after the delay, and none for zoom 0 or 1; Deallocate
\* turns Allocated(handle, alloc) into Loaded(handle) and changes no other
\* state; so an Allocated entry of zoom > 1 always has a Deallocate pending
C9_DeallocateAboveOne ==
    /\ (msg.type = "Allocated" /\ prev.state \in {"Allocating", "Loaded"}) =>
           ret = IF zoom(msg.id) > KEEP_ALLOCATED_ZOOM
                 THEN One(TaskSleep(msg.id, now + DEALLOC_DELAY))
                 ELSE EmptyBag
    /\ msg.type = "Deallocate" =>
           /\ ret = EmptyBag
           /\ cache[msg.id] =
                  IF prev.state = "Allocated"
                  THEN Entry("Loaded", prev.handle, 0, prev.last_used)
                  ELSE prev
    /\ \A id \in AllTiles :
           (cache[id].state = "Allocated" /\ zoom(id) > KEEP_ALLOCATED_ZOOM) =>
               Count(tasks, "sleep", id) >= 1

C9_Witness ==
    /\ msg.type = "Deallocate" /\ prev.state = "Allocated"
    /\ zoom(msg.id) = KEEP_ALLOCATED_ZOOM + 1
    /\ cache[msg.id].state = "Loaded"
    /\ cache[msg.id].handle = prev.handle

\* the entries the Prune arm must keep
Protected(id) ==
    \/ cache[id].state \in {"Loading", "Allocating"}
    \/ cache[id] # NoEntry /\ zoom(id) < PRUNE_MIN_ZOOM

\* C10: handling Prune never removes an entry in Loading or Allocating state
\* and never removes an entry of zoom < 6, whatever its state and age
C10_PruneKeeps ==
    [][msg' = Prune => \A id \in AllTiles : Protected(id) => cache'[id] = cache[id]]_vars

\* a Prune has removed entries and kept a protected entry that is old enough
C10_Witness ==
    /\ msg = Prune /\ pruned > 0
    /\ \E id \in AllTiles :
           /\ cache[id].state = "Loading"
           /\ now - cache[id].last_used >= PRUNE_TIME

\* the entries a step has removed from the map
Removed == {id \in Present : cache'[id] = NoEntry}

\* C11: a Prune on a cache of n entries removes only entries last used at
\* least 60 s before, at most n - 1024 of them (none when n <= 1024), and
\* leaves every other entry as it was: no prune shrinks the cache below 1024
C11_PruneBounded ==
    [][msg' = Prune =>
          LET n == CacheLen
              removed == CacheLen - CacheLen'
          IN  /\ \A id \in Removed : now - cache[id].last_used >= PRUNE_TIME
              /\ \A id \in AllTiles \ Removed : cache'[id] = cache[id]
              /\ removed <= (IF n > PRUNE_THRESH THEN n - PRUNE_THRESH ELSE 0)
              /\ (removed > 0 => CacheLen' >= PRUNE_THRESH)]_vars

\* C12: handling Prune never fails: the prune target never underflows,
\* whoever submitted the Prune and whatever was handled before it
C12_PruneNeverUnderflows == ~panicked /\ ~wrapped

\* the latest step was a call of update
Updated == msg.type \notin {"None", "should_load", "should_alloc", "get_drawable"}

\* C13: update schedules a Prune exactly when, before the message is handled,
\* the cache holds more than 1024 entries and more than 5 s have passed since
\* the timer was reset; scheduling resets the timer to the present, anything
\* else leaves it alone
C13_PruneSchedule ==
    [][(Updated' /\ ~panicked') =>
          LET due == CacheLen > PRUNE_THRESH /\ now - cleanup_timer > CLEANUP_COOLDOWN
          IN  /\ BagIn(TaskDone(Prune), ret') <=> due
              /\ CopiesIn(TaskDone(Prune), ret') <= 1
              /\ cleanup_timer' = (IF due THEN now ELSE cleanup_timer)]_vars

\* update has scheduled a Prune late after the construction of the cache
C13_Witness ==
    /\ Updated
    /\ BagIn(TaskDone(Prune), ret)
    /\ cleanup_timer = now
    /\ now > CLEANUP_COOLDOWN
    /\ CacheLen > PRUNE_THRESH

\* the fetch task of tile id waits for a permit
WaitingFor(id) == \E t \in Waiting : t.m.id = id

\* C14: a fetch task that leaves the wait for a permit without one does so
\* at its deadline at the earliest and with no permit to take; update then
\* gets LoadFailed for its tile, no request is made for the tile, no permit is
\* taken or given back, and the Loading entry is gone; and a fetch task does
\* not wait for a permit forever, even when no request is ever answered
C14_AcquireTimeout ==
    /\ [][\A t \in Waiting :
             (CopiesIn(t, tasks') < CopiesIn(t, tasks)
              /\ ~BagIn(TaskFetch(t.m.id, "request", 0), tasks')) =>
                 /\ now >= t.deadline /\ permits = 0
                 /\ msg' = LoadFailed(t.m.id)
                 /\ Count(tasks', "fetch", t.m.id) = 0
                 /\ permits' = permits /\ Holding' = Holding
                 /\ cache'[t.m.id] = NoEntry]_vars
    /\ WaitingFor(Queued) ~> ~WaitingFor(Queued)

\* a fetch task has timed out at its deadline while all permits were held
C14_Witness ==
    /\ msg.type = "LoadFailed" /\ prev.state = "Loading"
    /\ Holding = PERMITS /\ permits = 0
    /\ now = ACQUIRE_TIMEOUT
    /\ Count(tasks, "fetch", msg.id) = 0

\* C15: a fetch task holds its permit exactly while it runs past acquire: the
\* available permits and the fetch tasks holding one always add up to 6, so
\* every permit is back when no fetch task is running
C15_PermitsReleased ==
    /\ permits + Holding = PERMITS
    /\ (\A t \in Running : t.kind # "fetch") => permits = PERMITS

\* all fetch tasks have ended, one by a success, the others by a failure or a timeout
C15_Witness ==
    /\ \A t \in Running : t.kind # "fetch"
    /\ permits = PERMITS
    /\ msg.type = "LoadFailed"
    /\ \E id \in TilesOfGate : cache[id].state = "Loaded"
    /\ Cardinality({id \in TilesOfGate : cache[id] = NoEntry}) >= PERMITS

\* the latest step was a query
Queried == msg.type \in {"should_load", "should_alloc", "get_drawable"}

\* what every query leaves alone, and the value it returns: no entry is
\* added or removed, no state, handle or allocation changes, no entry but the
\* queried one is touched; should_load is true exactly for an absent tile,
\* should_alloc exactly for a Loaded entry, get_drawable returns the handle
\* and the allocation exactly for an Allocated entry
QueryFrame ==
    [][Queried' =>
          /\ \A id \in AllTiles \ {msg'.id} : cache'[id] = cache[id]
          /\ cache'[msg'.id] = [cache[msg'.id] EXCEPT !.last_used = cache'[msg'.id].last_used]
          /\ others' = others /\ CacheLen' = CacheLen
          /\ msg'.type = "should_load" =>
                 result' = Bool(cache[msg'.id].state = "Absent")
          /\ msg'.type = "should_alloc" =>
                 result' = Bool(cache[msg'.id].state = "Loaded")
          /\ msg'.type = "get_drawable" =>
                 result' = IF cache[msg'.id].state = "Allocated"
                           THEN Some(cache[msg'.id].handle, cache[msg'.id].alloc)
                           ELSE None]_vars

\* C16 as stated: the frame and the results above, and each query on an
\* existing entry refreshes the entry's last-used time
C16_EveryQueryTouches ==
    /\ QueryFrame
    /\ [][(Queried' /\ cache[msg'.id] # NoEntry) =>
             cache'[msg'.id].last_used = now]_vars

\* C16 amended: the frame and the results above; should_load and should_alloc
\* refresh the last-used time of an existing entry, get_drawable refreshes it
\* only when it returns the allocation (the entry is Allocated) and leaves
\* the last-used time of a Loading, Loaded or Allocating entry as it was
C16_Queries ==
    /\ QueryFrame
    /\ [][(Queried' /\ cache[msg'.id] # NoEntry) =>
             cache'[msg'.id].last_used =
                 IF msg'.type = "get_drawable" /\ cache[msg'.id].state # "Allocated"
                 THEN cache[msg'.id].last_used
                 ELSE now]_vars

\* get_drawable has returned the allocation of an entry last used earlier and
\* has refreshed it
C16_Witness ==
    /\ msg.type = "get_drawable" /\ prev.state = "Allocated"
    /\ result = Some(prev.handle, prev.alloc)
    /\ prev.last_used < now
    /\ cache[msg.id] = [prev EXCEPT !.last_used = now]

\* the edges of the state machine of an entry, as <<from, to>>
Edges ==
    { <<"Absent", "Loading">>, <<"Loading", "Loaded">>, <<"Loading", "Absent">>,
      <<"Loaded", "Allocating">>, <<"Allocating", "Allocated">>,
      <<"Allocating", "Loaded">>, <<"Allocated", "Loaded">>,
      <<"Loaded", "Absent">>, <<"Allocated", "Absent">> }

\* C17: every change of an entry follows an edge of the state machine; only
\* a prune removes a Loaded or Allocated entry, and no fetch result turns an
\* Allocated entry into a Loaded one
C17_OnlyEdges ==
    [][\A id \in AllTiles :
          LET a == cache[id]
              b == cache'[id]
          IN  \/ a.state = b.state /\ a.handle = b.handle /\ a.alloc = b.alloc
              \/ /\ <<a.state, b.state>> \in Edges
                 /\ (a.state \in {"Loaded", "Allocated"} /\ b.state = "Absent")
                        => msg' = Prune
                 /\ (a.state = "Allocated" /\ b.state = "Loaded")
                        => msg'.type = "Deallocate"]_vars

\* flood_tiles has returned
Returned == view # NoView /\ calls = <<>> /\ tiles = <<>>

\* the tiles of the search zoom whose rectangle intersects the viewport
SearchZoom == central_tile_id(view)[3]
Intersecting ==
    {id \in (0..(total_tiles(SearchZoom) - 1)) \X (0..(total_tiles(SearchZoom) - 1)) \X {SearchZoom} :
        intersects(flood_area(view), position_of_tile(view, id))}

\* the tile coordinates of the result
Visible == {p[1] : p \in visible_tiles}

\* C18: flood_tiles returns for every viewpoint, viewport and search zoom;
\* flood_tiles_inner evaluates (inserts) each tile coordinate at most once,
\* and calls itself for the neighbours of a tile only when the rectangle of
\* the tile intersects the viewport
C18_FloodTerminates ==
    /\ [](\A id \in BagToSet(inserts) : CopiesIn(id, inserts) = 1)
    /\ [][(calls # <<>> /\ Len(calls') >= Len(calls)) =>
             /\ Head(calls) \notin DOMAIN tiles
             /\ intersects(flood_area(view), position_of_tile(view, Head(calls)))]_vars
    /\ (view # NoView) ~> Returned

\* a search has returned after rejecting tiles around the accepted ones
C18_Witness ==
    /\ Returned
    /\ Cardinality(Visible) >= 12
    /\ BagCardinality(inserts) > Cardinality(Visible)

\* C19: the result of flood_tiles holds every tile of the search zoom whose
\* rectangle intersects the expanded viewport, with the rectangle of the
\* tile, and holds no tile coordinate twice
C19_FloodComplete ==
    Returned =>
        /\ Intersecting \subseteq Visible
        /\ \A id \in Visible :
               {p \in visible_tiles : p[1] = id} = {<<id, position_of_tile(view, id)>>}

\* a search has returned a block of tiles that ends at the edge of the grid
\* and one that does not
C19_Witness ==
    /\ Returned
    /\ Cardinality(Intersecting) >= 12
    /\ Visible = Intersecting
    /\ \E id \in Visible : id[1] = 0
    /\ \E id \in Visible : id[1] = total_tiles(SearchZoom) - 1

\* iced::Rectangle::contains (the right and the bottom edge are outside)
contains(r, p) ==
    /\ r.x <= p[1] /\ p[1] < r.x + r.width
    /\ r.y <= p[2] /\ p[2] < r.y + r.height

\* the rectangle grown by half a pixel on each side, edges included,
\* contains the point
containsWithinHalfPixel(r, p) ==
    /\ 2 * r.x - Sub <= 2 * p[1] /\ 2 * p[1] <= 2 * (r.x + r.width) + Sub
    /\ 2 * r.y - Sub <= 2 * p[2] /\ 2 * p[2] <= 2 * (r.y + r.height) + Sub

MIN_ZOOM == 4
MAX_ZOOM == 52
\* f64::NAN, and the f64 sum
NaN == -1000
add(a, b) == IF a = NaN \/ b = NaN THEN NaN ELSE a + b

\* Result<Zoom, InvalidZoom>
Ok(value) == [ok |-> TRUE, value |-> value]
InvalidZoom == [ok |-> FALSE, value |-> NaN]

try_from_above_one(value) ==
    IF ~(value # NaN /\ 2 <= value /\ value <= MAX_ZOOM) THEN InvalidZoom ELSE Ok(value)

\* Zoom::try_from: !(2. ..=26.).contains(&value) is an error
try_from(value) ==
    IF ~(value # NaN /\ MIN_ZOOM <= value /\ value <= MAX_ZOOM) THEN InvalidZoom ELSE Ok(value)

\* the f64 values given to try_from and the amounts given to zoom_by
ZoomValues == (-2 .. 56) \cup {NaN}
ZoomAmounts == {-60, -3, -2, -1, 0, 1, 2, 3, 60, NaN}

Call(op, arg, r) == [op |-> op, arg |-> arg, ret |-> r]

\* Zoom::try_from(value): the Zoom it returns is the one held from then on
TryFrom(value) ==
    /\ zoom_value' = IF try_from(value).ok THEN try_from(value).value ELSE zoom_value
    /\ last_call' = Call("try_from", <<value>>, try_from(value))
    /\ UNCHANGED <<coord, engine, flood, draw>>

\* a method that assigns Self::try_from(target)? to *self
Assign(op, arg, target) ==
    /\ zoom_value' = IF try_from(target).ok THEN try_from(target).value ELSE zoom_value
    /\ last_call' = Call(op, arg, [ok |-> try_from(target).ok, value |-> 0])
    /\ UNCHANGED <<coord, engine, flood, draw>>

zoom_in == Assign("zoom_in", <<>>, add(zoom_value, 2))
zoom_out == Assign("zoom_out", <<>>, add(zoom_value, -2))

zoom_by_clamping(zoom_amount) ==
    /\ zoom_value' = IF add(zoom_value, zoom_amount) = NaN THEN zoom_value
                     ELSE Max(MIN_ZOOM, Min(MAX_ZOOM, zoom_value + zoom_amount))
    /\ last_call' = Call("zoom_by", <<zoom_amount>>, [ok |-> TRUE, value |-> 0])
    /\ UNCHANGED <<coord, engine, flood, draw>>

\* Zoom::zoom_by: assigns only if let Ok(new_self), and returns nothing
zoom_by(zoom_amount) ==
    /\ zoom_value' = IF try_from(add(zoom_value, zoom_amount)).ok
                     THEN try_from(add(zoom_value, zoom_amount)).value
                     ELSE zoom_value
    /\ last_call' = Call("zoom_by", <<zoom_amount>>, [ok |-> TRUE, value |-> 0])
    /\ UNCHANGED <<coord, engine, flood, draw>>

InitZoom ==
    /\ Start(0)
    /\ wanted = NoTile

NextZoom ==
    \/ \E value \in ZoomValues : TryFrom(value)
    \/ zoom_in
    \/ zoom_out
    \/ \E zoom_amount \in ZoomAmounts : zoom_by(zoom_amount)

SpecZoom == InitZoom /\ [][NextZoom]_vars

(***************************************************************************)
(* Properties of the zoom level                                            *)
(***************************************************************************)
\* the zooms 2.0 to 26.0 and the zooms 0.0 to 26.0, in halves
ValidZooms == 4 .. 52
ZoomsFromZero == 0 .. 52
\* the step is a call of the method `op` of Zoom
ZoomCall(op) == last_call'.op = op /\ <<zoom_value, last_call>>' # <<zoom_value, last_call>>
Clamped(v) == IF v < 4 THEN 4 ELSE IF v > 52 THEN 52 ELSE v

C22_ZoomByClamps ==
    [][ZoomCall("zoom_by") /\ last_call'.arg[1] # NaN =>
            zoom_value' = Clamped(zoom_value + last_call'.arg[1])]_vars

\* C22 amended: zoom_by leaves the zoom at its previous value when the sum
\* falls outside [2, 26] or is no number, and moves it to the sum otherwise.
C22_ZoomByIgnores ==
    [][ZoomCall("zoom_by") =>
            IF add(zoom_value, last_call'.arg[1]) \in ValidZooms
            THEN zoom_value' = zoom_value + last_call'.arg[1]
            ELSE zoom_value' = zoom_value]_vars

\* zoom_by(30.0) has been called at zoom 25.5, which is still the zoom
C22_Witness ==
    last_call.op = "zoom_by" /\ last_call.arg = <<60>> /\ zoom_value = 51

\* C23: the lowest valid zoom is 0: try_from(1.0) succeeds, zoom_out from
\* zoom 1 succeeds and yields zoom 0, zoom_out from zoom 0 is an error.
C23_LowestZoomIsZero ==
    /\ [][ZoomCall("try_from") /\ last_call'.arg[1] \in ZoomsFromZero =>
            last_call'.ret.ok /\ zoom_value' = last_call'.arg[1]]_vars
    /\ [][ZoomCall("zoom_out") =>
            IF zoom_value - 2 \in ZoomsFromZero
            THEN last_call'.ret.ok /\ zoom_value' = zoom_value - 2
            ELSE ~last_call'.ret.ok /\ zoom_value' = zoom_value]_vars

(***************************************************************************)
(* The tile coordinate (src/src/tile.rs; TileCoord is the TileId of that   *)
(* file).  A TileCoord is <<x, y, zoom>>, as in the visibility search.     *)
(***************************************************************************)
\* the deepest zoom of the tiles that are constructed
MaxTileZoom == 3

\* Option<TileCoord>
SomeTile(id) == [some |-> TRUE, tile |-> id]
NoneTile == [some |-> FALSE, tile |-> NoTile]

\* TileCoord::parent (downsample): None at zoom 0 (checked_sub)
parent(id) ==
    IF id[3] >= 1 THEN SomeTile(<<id[1] \div 2, id[2] \div 2, id[3] - 1>>) ELSE NoneTile

eastUnchecked(id) == SomeTile(<<id[1] + 1, id[2], id[3]>>)

\* TileCoord::east, west, north and south
east(id) ==
    IF id[1] < total_tiles(id[3]) - 1 THEN SomeTile(<<id[1] + 1, id[2], id[3]>>) ELSE NoneTile
west(id) ==
    IF id[1] >= 1 THEN SomeTile(<<id[1] - 1, id[2], id[3]>>) ELSE NoneTile
north(id) ==
    IF id[2] >= 1 THEN SomeTile(<<id[1], id[2] - 1, id[3]>>) ELSE NoneTile
south(id) ==
    IF id[2] < total_tiles(id[3]) - 1 THEN SomeTile(<<id[1], id[2] + 1, id[3]>>) ELSE NoneTile

childrenOfThree(id) ==
    << <<2 * id[1], 2 * id[2], id[3] + 1>>, <<2 * id[1] + 1, 2 * id[2], id[3] + 1>>,
       <<2 * id[1], 2 * id[2] + 1, id[3] + 1>>, <<2 * id[1], 2 * id[2] + 1, id[3] + 1>> >>

\* TileCoord::children: the four tiles of zoom + 1 the tile is divided into
children(id) ==
    << <<2 * id[1], 2 * id[2], id[3] + 1>>, <<2 * id[1] + 1, 2 * id[2], id[3] + 1>>,
       <<2 * id[1], 2 * id[2] + 1, id[3] + 1>>, <<2 * id[1] + 1, 2 * id[2] + 1, id[3] + 1>> >>

\* TileCoord::valid
valid(id) == id[1] < total_tiles(id[3]) /\ id[2] < total_tiles(id[3])

\* TileCoord::new(x, y, zoom) with u32 values on and beyond the grid
New(x, y, z) ==
    /\ coord' = TileCoord(x, y, z)
    /\ last_call' = Call("new", <<x, y, z>>, SomeTile(TileCoord(x, y, z)))
    /\ UNCHANGED <<zoom_value, engine, flood, draw>>

\* a method of TileCoord that returns Option<TileCoord>, called on `coord`;
\* the tile it returns is the one the next method is called on
Step(op, r) ==
    /\ coord' = IF r.some THEN r.tile ELSE coord
    /\ last_call' = Call(op, <<coord>>, r)
    /\ UNCHANGED <<zoom_value, engine, flood, draw>>

North == Step("north", north(coord))
East == Step("east", east(coord))
South == Step("south", south(coord))
West == Step("west", west(coord))
Parent == Step("parent", parent(coord))
Children(i) ==
    /\ coord[3] < MaxTileZoom
    /\ Step("children", SomeTile(children(coord)[i]))

InitTile ==
    /\ Start(0)
    /\ wanted = NoTile

NextTile ==
    \/ \E z \in 0 .. MaxTileZoom :
         \E x, y \in 0 .. total_tiles(z) + 1 : New(x, y, z)
    \/ North
    \/ East
    \/ South
    \/ West
    \/ Parent
    \/ \E i \in 1 .. 4 : Children(i)

SpecTile == InitTile /\ [][NextTile]_vars

(***************************************************************************)
(* Properties of the tile coordinate                                       *)
(***************************************************************************)
\* the step is a call of the method `op` of TileCoord
TileCall(op) == last_call'.op = op /\ <<coord, last_call>>' # <<coord, last_call>>
\* the neighbour step `op` moves by dx, dy and has none at the edge `edge`
NeighbourStep(op, dx, dy, edge) ==
    TileCall(op) =>
        /\ last_call'.ret.some <=> ~edge
        /\ ~edge => /\ coord' = <<coord[1] + dx, coord[2] + dy, coord[3]>>
                    /\ last_call'.ret.tile = coord'
        /\ edge => coord' = coord

\* C24: every tile reached from the constructor by north, east, south, west,
\* parent and children steps has x < 2^zoom and y < 2^zoom; a neighbour step
\* is none exactly at the edge of the grid in its direction, and otherwise
\* the tile of the same zoom one step away in that direction.
C24_TileGrid ==
    /\ [](coord[1] \in 0 .. 2 ^ coord[3] - 1 /\ coord[2] \in 0 .. 2 ^ coord[3] - 1)
    /\ [][NeighbourStep("north", 0, -1, coord[2] = 0)]_vars
    /\ [][NeighbourStep("south", 0, 1, coord[2] = 2 ^ coord[3] - 1)]_vars
    /\ [][NeighbourStep("west", -1, 0, coord[1] = 0)]_vars
    /\ [][NeighbourStep("east", 1, 0, coord[1] = 2 ^ coord[3] - 1)]_vars

\* east has returned none at the east edge of the grid of zoom 2
C24_Witness ==
    /\ last_call.op = "east" /\ ~last_call.ret.some
    /\ coord[3] = 2 /\ coord[1] = 3 /\ coord[2] = 1

\* C25: the parent of a tile of zoom > 0 is (x div 2, y div 2, zoom - 1) and
\* its four children include the tile; the four children of a tile are four
\* distinct tiles of zoom + 1; the tile of zoom 0 has no parent.
C25_ParentChildren ==
    LET kids == {children(coord)[i] : i \in 1 .. 4}
    IN  /\ coord[3] > 0 =>
            /\ parent(coord) = SomeTile(<<coord[1] \div 2, coord[2] \div 2, coord[3] - 1>>)
            /\ \E i \in 1 .. 4 : children(parent(coord).tile)[i] = coord
        /\ Cardinality(kids) = 4
        /\ \A k \in kids : k[3] = coord[3] + 1
        /\ coord[3] = 0 => ~parent(coord).some
        /\ last_call.op = "parent" =>
              last_call.ret = parent(last_call.arg[1])
        /\ last_call.op = "children" =>
              last_call.ret.tile \in {children(last_call.arg[1])[i] : i \in 1 .. 4}

\* the parent of the tile (3, 2) of zoom 2 has been taken
C25_Witness ==
    /\ last_call.op = "parent" /\ last_call.arg = << <<3, 2, 2>> >>
    /\ coord = <<1, 1, 1>>

(***************************************************************************)
(* The projection (src/src/position.rs, src/src/projector.rs).  A Mercator *)
(* coordinate is a fraction <<n, d>> in lowest terms, a point of pixel or  *)
(* screen space a pair of lengths in units of 1/Sub pixel.  The f64 and    *)
(* f32 operations are exact on the values used here: the denominators of   *)
(* the Mercator coordinates divide the half width of the world.            *)
(***************************************************************************)
RECURSIVE gcd(_, _)
gcd(a, b) == IF b = 0 THEN a ELSE gcd(b, a % b)
Fraction(n, d) ==
    LET g == gcd(IF n < 0 THEN -n ELSE n, d) IN <<n \div g, d \div g>>

\* f64::clamp(-1., 1.) and Mercator::new
clamp(q) ==
    IF q[1] > q[2] THEN <<1, 1>> ELSE IF q[1] < -q[2] THEN <<-1, 1>> ELSE q
Mercator(x, y) == <<clamp(x), clamp(y)>>

\* Mercator::from_pixel_space
from_pixel_space(point, z2) ==
    Mercator(Fraction(point[1], pixels_half_width(z2)),
             Fraction(point[2], pixels_half_width(z2)))

\* Mercator::into_pixel_space
into_pixel_space(m, z2) ==
    <<(m[1][1] * pixels_half_width(z2)) \div m[1][2],
      (m[2][1] * pixels_half_width(z2)) \div m[2][2]>>

\* Projector { viewpoint, bounds } as the visibility search holds it: the
\* position is Viewpoint::into_pixel_space
Projector(position, z2, bounds) ==
    [position |-> into_pixel_space(position, z2), zoom |-> z2, tile_size |-> BASE_SIZE,
     max_zoom |-> MaxTileZoom, bounds |-> bounds]

screen_space_into_pixel_space_unrounded(v, point) ==
    <<v.position[1] + (point[1] - center(v.bounds)[1]),
      v.position[2] + (point[2] - center(v.bounds)[2])>>

\* Projector::screen_space_into_pixel_space
screen_space_into_pixel_space(v, point) ==
    <<round_ceil(v.position[1]) + (point[1] - center(v.bounds)[1]),
      round_ceil(v.position[2]) + (point[2] - center(v.bounds)[2])>>

\* Projector::mercator_into_screen_space and screen_space_into_mercator
mercator_into_screen_space(v, position) ==
    pixel_space_into_screen_space(v, into_pixel_space(position, v.zoom))
screen_space_into_mercator(v, point) ==
    from_pixel_space(screen_space_into_pixel_space(v, point), v.zoom)

\* the positions, the zooms (1.0, 2.0, 2.5 and 3.0 in halves), the
\* projectors and the points of the screen the methods are called with
MercatorCoordinates == {Fraction(n, 8) : n \in {-8, -3, 0, 1, 4, 8}}
Positions == {<<x, y>> : x, y \in {Fraction(k, 8) : k \in {-8, -3, 1, 8}}}
ProjectionZooms == {2, 4, 5, 6}
Projectors ==
    {Projector(p, z2, b) : p \in Positions, z2 \in ProjectionZooms \ {2},
                           b \in {Rectangle(0, 0, 1280 * Sub, 720 * Sub)}}
ScreenPoints ==
    {<<x, y>> : x \in {500 * Sub, 500 * Sub + 1, 30000 * Sub},
                y \in {-10000 * Sub, 300 * Sub}}

\* a call of a method of Mercator or Projector
Apply(op, arg, r) ==
    /\ last_call' = Call(op, arg, r)
    /\ UNCHANGED <<zoom_value, coord, engine, flood, draw>>

TileIdOf(v, z) == Apply("tile_id", <<v, z>>, tile_id(v, z))
IntoPixelSpace(m, z2) == Apply("into_pixel_space", <<m, z2>>, into_pixel_space(m, z2))
FromPixelSpace(point, z2) == Apply("from_pixel_space", <<point, z2>>, from_pixel_space(point, z2))
MercatorIntoScreenSpace(v, m) ==
    Apply("mercator_into_screen_space", <<v, m>>, mercator_into_screen_space(v, m))
ScreenSpaceIntoMercator(v, point) ==
    Apply("screen_space_into_mercator", <<v, point>>, screen_space_into_mercator(v, point))

InitProjection ==
    /\ Start(0)
    /\ wanted = NoTile

NextProjection ==
    \/ \E v \in Projectors, z \in 0 .. MaxTileZoom : TileIdOf(v, z)
    \/ \E x, y \in MercatorCoordinates, z2 \in ProjectionZooms :
          IntoPixelSpace(<<x, y>>, z2)
    \/ \E v \in Projectors, point \in ScreenPoints :
          FromPixelSpace(screen_space_into_pixel_space(v, point), v.zoom)
    \/ \E v \in Projectors, m \in Positions : MercatorIntoScreenSpace(v, m)
    \/ \E v \in Projectors, point \in ScreenPoints : ScreenSpaceIntoMercator(v, point)

SpecProjection == InitProjection /\ [][NextProjection]_vars

(***************************************************************************)
(* Properties of the projection                                            *)
(***************************************************************************)
\* the pixel-space point lies on the map at the zoom z2 / 2
OnMap(point, z2) ==
    /\ point[1] \in -pixels_half_width(z2) .. pixels_half_width(z2)
    /\ point[2] \in -pixels_half_width(z2) .. pixels_half_width(z2)

\* C26: the tile address of a Mercator position at an integer zoom is
\* floor((coordinate + 1) / 2 * 2^zoom) in x and in y, clamped to the grid:
\* a coordinate of 1.0 gives the last tile 2^zoom - 1, and the tile is valid.
C26_TileAddress ==
    last_call.op = "tile_id" =>
        LET v == last_call.arg[1]
            h == pixels_half_width(v.zoom)
            n == 2 ^ last_call.arg[2]
            t == last_call.ret
            Address(pos, a) ==
                IF pos = h THEN a = n - 1
                ELSE a * 2 * h <= (pos + h) * n /\ (pos + h) * n < (a + 1) * 2 * h
        IN  /\ t[3] = last_call.arg[2]
            /\ valid(t) /\ t[1] >= 0 /\ t[2] >= 0
            /\ Address(v.position[1], t[1])
            /\ Address(v.position[2], t[2])

\* the tile of a position on the east border, at zoom 3
C26_Witness ==
    /\ last_call.op = "tile_id" /\ last_call.arg[2] = 3
    /\ last_call.arg[1].position[1] = pixels_half_width(last_call.arg[1].zoom)
    /\ last_call.ret[1] = 7

C28_PixelSpace256 ==
    /\ last_call.op = "into_pixel_space" =>
          /\ from_pixel_space(last_call.ret, last_call.arg[2]) = last_call.arg[1]
          /\ last_call.arg[2] % 2 = 0 =>
                \A i \in 1 .. 2 :
                    last_call.ret[i] * last_call.arg[1][i][2]
                        = last_call.arg[1][i][1] * 2 ^ (last_call.arg[2] \div 2 - 1) * 256 * Sub
    /\ last_call.op = "from_pixel_space" /\ OnMap(last_call.arg[1], last_call.arg[2]) =>
          into_pixel_space(last_call.ret, last_call.arg[2]) = last_call.arg[1]

(***************************************************************************)
(* The draw resolution of the widget (src/src/map_widget.rs): the part of  *)
(* MapWidget::update that publishes the loads of the visible tiles and     *)
(* builds the new draw cache.  One step is one iteration of its loop over  *)
(* visible_tiles; the cache engine takes no step during the loop, as       *)
(* update borrows the TileCache for the whole call.                        *)
(***************************************************************************)
\* a map without the key k, and with the value v at the key k
Remove(f, k) == [x \in DOMAIN f \ {k} |-> f[x]]
Insert(f, k, v) == [x \in DOMAIN f \cup {k} |-> IF x = k THEN v ELSE f[x]]

\* DrawData: the placement of a tile
DrawData(handle, rectangle, alloc) ==
    [handle |-> handle, rect |-> rectangle, alloc |-> alloc]

\* the state of one run of the loop: state.draw_cache, the local draw_cache,
\* the map of the tile cache (queries touch its entries), the messages
\* published and the record of the iteration
Drawing(prv, new, c, pub, log) ==
    [prev |-> prv, new |-> new, cache |-> c, pub |-> pub, log |-> log]

\* Option<(Handle, Allocation)> together with the state the call leaves
Got(some, handle, alloc, ds) ==
    [some |-> some, handle |-> handle, alloc |-> alloc, ds |-> ds]

\* the closure get_tile: draw_cache.remove(tile_id), or else
\* tile_cache.get_drawable(tile_id)
get_tile(ds, id) ==
    IF id \in DOMAIN ds.prev
    THEN Got(TRUE, ds.prev[id].handle, ds.prev[id].alloc,
             [ds EXCEPT !.prev = Remove(ds.prev, id)])
    ELSE IF ds.cache[id].state = "Allocated"
    THEN Got(TRUE, ds.cache[id].handle, ds.cache[id].alloc,
             [ds EXCEPT !.cache[id].last_used = now])
    ELSE Got(FALSE, 0, 0, ds)

\* draw_cache.insert(id, handle, rectangle, allocation)
Place(ds, id, got, rectangle) ==
    [ds EXCEPT !.new = Insert(ds.new, id, DrawData(got.handle, rectangle, got.alloc)),
               !.log.placed = ds.log.placed \cup {id}]

RequestAllocationAlways(ds, id) ==
    [ds EXCEPT !.pub = ds.pub (+) One(Allocate(id)),
               !.log.allocate = ds.log.allocate \cup {id}]

\* if self.tile_cache.should_alloc(&id) { shell.publish(AllocateTile { id }) }
RequestAllocation(ds, id) ==
    IF ds.cache[id] = NoEntry THEN ds
    ELSE IF ds.cache[id].state = "Loaded"
    THEN [ds EXCEPT !.cache[id].last_used = now,
                    !.pub = ds.pub (+) One(Allocate(id)),
                    !.log.allocate = ds.log.allocate \cup {id}]
    ELSE [ds EXCEPT !.cache[id].last_used = now]

\* the loop over the four children, from the i-th on, with
\* num_children_available = n
RECURSIVE ChildrenFallback(_, _, _, _)
ChildrenFallback(ds, tile, i, n) ==
    IF i > 4 THEN [ds |-> ds, n |-> n]
    ELSE LET child == children(tile)[i]
             seen == [ds EXCEPT !.log.children = Append(ds.log.children, child)]
         IN  IF child \in DOMAIN ds.new
             THEN ChildrenFallback(seen, tile, i + 1, n + 1)
             ELSE IF get_tile(seen, child).some
             THEN ChildrenFallback(Place(get_tile(seen, child).ds, child, get_tile(seen, child),
                                         position_of_tile(view, child)),
                                   tile, i + 1, n + 1)
             ELSE ChildrenFallback(seen, tile, i + 1, n)

AncestorFallbackParentOnly(ds, new_tile_id) ==
    IF ~parent(new_tile_id).some THEN ds
    ELSE LET id == parent(new_tile_id).tile
             seen == [ds EXCEPT !.log.ancestors = Append(ds.log.ancestors, id)]
         IN  IF id \in DOMAIN ds.new THEN seen
             ELSE IF get_tile(seen, id).some
             THEN Place(get_tile(seen, id).ds, id, get_tile(seen, id),
                        position_of_tile(view, id))
             ELSE RequestAllocation(seen, id)

\* the loop over the parents of new_tile_id
RECURSIVE AncestorFallback(_, _)
AncestorFallback(ds, new_tile_id) ==
    IF ~parent(new_tile_id).some THEN ds
    ELSE LET id == parent(new_tile_id).tile
             seen == [ds EXCEPT !.log.ancestors = Append(ds.log.ancestors, id)]
         IN  IF id \in DOMAIN ds.new THEN seen
             ELSE IF get_tile(seen, id).some
             THEN Place(get_tile(seen, id).ds, id, get_tile(seen, id),
                        position_of_tile(view, id))
             ELSE AncestorFallback(RequestAllocation(seen, id), id)

ResolveTileWithoutParents(ds, tile, rectangle) ==
    IF get_tile(ds, tile).some
    THEN [Place(get_tile(ds, tile).ds, tile, get_tile(ds, tile), rectangle)
             EXCEPT !.log.direct = TRUE]
    ELSE ChildrenFallback(RequestAllocation(ds, tile), tile, 1, 0).ds

ResolveTileMostChildren(ds, tile, rectangle) ==
    IF get_tile(ds, tile).some
    THEN [Place(get_tile(ds, tile).ds, tile, get_tile(ds, tile), rectangle)
             EXCEPT !.log.direct = TRUE]
    ELSE LET fallback == ChildrenFallback(RequestAllocation(ds, tile), tile, 1, 0)
         IN  IF fallback.n >= 3 THEN fallback.ds
             ELSE AncestorFallback(fallback.ds, tile)

\* one iteration of the loop, for the pair (tile, rectangle) of visible_tiles
ResolveTile(ds, tile, rectangle) ==
    IF get_tile(ds, tile).some
    THEN [Place(get_tile(ds, tile).ds, tile, get_tile(ds, tile), rectangle)
             EXCEPT !.log.direct = TRUE]
    ELSE LET fallback == ChildrenFallback(RequestAllocation(ds, tile), tile, 1, 0)
         IN  IF fallback.n = 4 THEN fallback.ds
             ELSE AncestorFallback(fallback.ds, tile)

\* a step of the widget that is no call of TileCache::update
Widget(c) ==
    /\ cache' = c
    /\ msg' = NoMsg
    /\ prev' = NoEntry
    /\ ret' = EmptyBag
    /\ result' = NoResult
    /\ UNCHANGED <<wanted, others, cleanup_timer, permits, tasks, now, wrapped,
                   panicked, pruned>>
    /\ UNCHANGED <<flood, values>>
    /\ UNCHANGED <<movement, zoom_state, cursor, viewpoint>>

\* the head of the draw resolution: a LoadTile is published for every
\* visible tile with should_load, and the new draw cache is DrawCache::new()
DrawBegin ==
    /\ pending = NotDrawing
    /\ visible_tiles # {}
    /\ pending' = visible_tiles
    /\ next_draw_cache' = <<>>
    /\ published' = SetToBag({Load(p[1]) : p \in {q \in visible_tiles : cache[q[1]] = NoEntry}})
    /\ resolved' = NoResolved
    /\ Widget([id \in AllTiles |->
                  IF cache[id] # NoEntry /\ \E p \in visible_tiles : p[1] = id
                  THEN [cache[id] EXCEPT !.last_used = now] ELSE cache[id]])
    /\ UNCHANGED draw_cache

\* the iteration of the loop for one of the pairs not yet reached
Resolve(pair) ==
    /\ pending # NotDrawing
    /\ pair \in pending
    /\ LET ds == ResolveTile(Drawing(draw_cache, next_draw_cache, cache, published,
                                     [NoResolved EXCEPT !.tile = pair[1]]),
                             pair[1], pair[2])
       IN  /\ draw_cache' = ds.prev
           /\ next_draw_cache' = ds.new
           /\ published' = ds.pub
           /\ resolved' = ds.log
           /\ Widget(ds.cache)
    /\ pending' = pending \ {pair}

DrawEndKeeping ==
    /\ pending = {}
    /\ draw_cache' = [id \in DOMAIN draw_cache \cup DOMAIN next_draw_cache |->
                         IF id \in DOMAIN next_draw_cache THEN next_draw_cache[id]
                         ELSE draw_cache[id]]
    /\ next_draw_cache' = <<>>
    /\ pending' = NotDrawing
    /\ UNCHANGED <<published, resolved>>
    /\ Widget(cache)

\* core::mem::swap(&mut draw_cache, &mut state.draw_cache), and the end of
\* update, where the former draw cache is dropped
DrawEnd ==
    /\ pending = {}
    /\ draw_cache' = next_draw_cache
    /\ next_draw_cache' = <<>>
    /\ pending' = NotDrawing
    /\ UNCHANGED <<published, resolved>>
    /\ Widget(cache)

\* the application passes a message the widget has published to update
Deliver(m) ==
    /\ ~panicked
    /\ pending = NotDrawing
    /\ BagIn(m, published)
    /\ BagCardinality(tasks) < MaxTasks
    /\ Update(m, tasks)
    /\ UNCHANGED permits

\* the viewpoint of the scenario: zoom 2.0 on the border of the tiles
\* (2, 2, 2) and (3, 2, 2), in bounds that the two tiles cover
ViewOfDraw ==
    [position |-> <<pixels_half_width(4) \div 2, pixels_half_width(4) \div 4>>,
     zoom |-> 4, tile_size |-> BASE_SIZE, max_zoom |-> 19,
     bounds |-> Rectangle(0, 0, 2 * Sub, 2 * Sub)]

\* what earlier frames and messages of the application have left: the entry
\* of the parent (1, 1, 1), and placements of the first n children of
\* (2, 2, 2) in the draw cache, whose entries the engine has deallocated
EntriesOfParent ==
    {NoEntry, Entry("Loaded", 2, 0, 0), Entry("Allocated", 2, 2, 0)}
PlacedChildren == {0, 3, 4}
FormerChildren(n) == {children(<<2, 2, 2>>)[i] : i \in 1..n}

\* the tiles whose published messages reach the engine; the Load of the
\* other visible tile is not passed on
TilesOfEngine == { <<2, 2, 2>>, ZERO }

InitDraw ==
    /\ \E e \in EntriesOfParent, n \in PlacedChildren :
          /\ cache = [id \in AllTiles |->
                         IF id = <<1, 1, 1>> THEN e
                         ELSE IF id \in FormerChildren(n) THEN Entry("Loaded", 1, 0, 0)
                         ELSE NoEntry]
          /\ draw_cache = [id \in FormerChildren(n) |->
                              DrawData(1, position_of_tile(ViewOfDraw, id), 1)]
    /\ wanted = ZERO
    /\ others = 0
    /\ cleanup_timer = 0
    /\ permits = PERMITS
    /\ tasks = EmptyBag
    /\ now = 0
    /\ wrapped = FALSE
    /\ panicked = FALSE
    /\ msg = NoMsg
    /\ prev = NoEntry
    /\ ret = EmptyBag
    /\ pruned = 0
    /\ result = NoResult
    /\ NoFlood
    /\ NoValues
    /\ NoMotion
    /\ next_draw_cache = <<>>
    /\ pending = NotDrawing
    /\ published = EmptyBag
    /\ resolved = NoResolved

\* the widget's update (the visibility search, then the draw resolution),
\* the application (its Load of the zoom-0 tile, as in examples/minimal.rs,
\* and the messages the widget publishes) and the tasks of the engine
NextDraw ==
    \/ FloodTiles(ViewOfDraw)
    \/ FloodTilesInner
    \/ FloodCollect
    \/ DrawBegin
    \/ \E pair \in pending : Resolve(pair)
    \/ DrawEnd
    \/ /\ pending = NotDrawing
       /\ visible_tiles # {}
       /\ \/ Submit(Load(ZERO))
          \/ \E m \in BagToSet(published) : m.id \in TilesOfEngine /\ Deliver(m)
          \/ \E t \in Running : RunDone(t)
          \/ \E t \in Running : FetchAcquire(t)
          \/ \E t \in Running : FetchOk(t, 1)
          \/ \E t \in Running : FetchErr(t)
          \/ \E t \in Running : AllocOk(t, 1)
          \/ \E t \in Running : AllocErr(t)
          \/ \E t \in Running : SleepDone(t)
          \/ Tick(DEALLOC_DELAY)

SpecDraw == InitDraw /\ [][NextDraw]_vars

(***************************************************************************)
(* Properties of the draw resolution                                       *)
(***************************************************************************)
\* the tiles above a tile, up to the tile of zoom 0
Ancestors(tile) ==
    { <<tile[1] \div 2 ^ k, tile[2] \div 2 ^ k, tile[3] - k>> : k \in 1..tile[3] }

\* the draw cache dc holds the tile, its four children or one of its ancestors
Covered(tile, dc) ==
    \/ tile \in DOMAIN dc
    \/ \A i \in 1..4 : children(tile)[i] \in DOMAIN dc
    \/ \E a \in Ancestors(tile) : a \in DOMAIN dc

RootAllocated == cache[ZERO].state = "Allocated"

\* the iteration of the loop for the pair p is the step
Iteration(p) ==
    /\ pending # NotDrawing
    /\ p \in pending
    /\ pending' = pending \ {p}

\* a drawable of the tile exists: in the draw cache of the previous frame or
\* as an Allocated entry of the tile cache
HasDrawable(tile) == tile \in DOMAIN draw_cache \/ cache[tile].state = "Allocated"

\* C29: once the zoom-0 tile is Allocated in the cache it stays Allocated,
\* and in every draw resolution from then on each visible tile the loop has
\* passed is covered by the new draw cache (by itself, by its four children
\* or by an ancestor); the draw cache the pass leaves covers every visible
\* tile.
C29_RootCoversAll ==
    /\ [][RootAllocated => RootAllocated']_vars
    /\ [](RootAllocated /\ pending # NotDrawing =>
             \A p \in visible_tiles \ pending : Covered(p[1], next_draw_cache))
    /\ [][RootAllocated /\ pending = {} /\ pending' = NotDrawing =>
             \A p \in visible_tiles : Covered(p[1], draw_cache')]_vars

\* a pass has ended in which a visible tile is covered by the zoom-0 tile
\* alone
C29_Witness ==
    /\ RootAllocated
    /\ pending = {}
    /\ Cardinality(visible_tiles) = 2
    /\ \E p \in visible_tiles :
          /\ p[1] \notin DOMAIN next_draw_cache
          /\ \E i \in 1..4 : children(p[1])[i] \notin DOMAIN next_draw_cache
          /\ Ancestors(p[1]) \cap DOMAIN next_draw_cache = {ZERO}

\* C30: the iteration for a visible tile that has a drawable places the tile
\* with its own rectangle and the drawable, evaluates no child and no
\* ancestor and publishes nothing; the iteration for a visible tile without
\* drawable publishes one Allocate for it when its entry is Loaded and none
\* otherwise, does not place the tile and goes through its four children.
C30_DirectOrAllocate ==
    [][\A p \in pending : Iteration(p) =>
          IF HasDrawable(p[1])
          THEN /\ DOMAIN next_draw_cache' = DOMAIN next_draw_cache \cup {p[1]}
               /\ next_draw_cache'[p[1]] =
                     IF p[1] \in DOMAIN draw_cache
                     THEN DrawData(draw_cache[p[1]].handle, p[2], draw_cache[p[1]].alloc)
                     ELSE DrawData(cache[p[1]].handle, p[2], cache[p[1]].alloc)
               /\ resolved'.direct
               /\ resolved'.children = <<>> /\ resolved'.ancestors = <<>>
               /\ published' = published
          ELSE /\ CopiesIn(Allocate(p[1]), published') =
                     CopiesIn(Allocate(p[1]), published)
                        + (IF cache[p[1]].state = "Loaded" THEN 1 ELSE 0)
               /\ p[1] \notin DOMAIN next_draw_cache'
               /\ ~resolved'.direct
               /\ resolved'.children = children(p[1])]_vars

\* a visible tile whose entry is Loaded has been placed from the draw cache
\* of the previous frame, with the rectangle of the visibility search
C30_Witness ==
    /\ resolved.tile = <<2, 2, 2>>
    /\ resolved.direct
    /\ pending # NotDrawing
    /\ cache[<<2, 2, 2>>].state = "Loaded"
    /\ <<2, 2, 2>> \in DOMAIN next_draw_cache
    /\ <<<<2, 2, 2>>, next_draw_cache[<<2, 2, 2>>].rect>> \in visible_tiles
    /\ resolved.placed = {<<2, 2, 2>>}

\* the children of the tile that resolve in the iteration about to run: those
\* already placed in this frame and those that have a drawable
ResolvingChildren(tile) ==
    {i \in 1..4 : \/ children(tile)[i] \in DOMAIN next_draw_cache
                  \/ HasDrawable(children(tile)[i])}

\* C31: in the iteration for a visible tile without drawable every child that
\* has a drawable is in the new draw cache afterwards, with the drawable and
\* the rectangle of the child; no ancestor is visited when all four children
\* resolve, and the walk starts at the parent when fewer do.
C31_ChildrenThenAncestors ==
    [][\A p \in pending : Iteration(p) /\ ~HasDrawable(p[1]) =>
          /\ \A i \in 1..4 :
                LET child == children(p[1])[i]
                IN  HasDrawable(child) /\ child \notin DOMAIN next_draw_cache =>
                       /\ child \in DOMAIN next_draw_cache'
                       /\ next_draw_cache'[child].rect = position_of_tile(view, child)
                       /\ next_draw_cache'[child].handle =
                             IF child \in DOMAIN draw_cache THEN draw_cache[child].handle
                             ELSE cache[child].handle
          /\ \A i \in 1..4 :
                children(p[1])[i] \in DOMAIN next_draw_cache' <=> i \in ResolvingChildren(p[1])
          /\ IF ResolvingChildren(p[1]) = 1..4
             THEN resolved'.ancestors = <<>>
             ELSE /\ resolved'.ancestors # <<>>
                  /\ resolved'.ancestors[1] = parent(p[1]).tile]_vars

\* three children of a visible tile without drawable have been placed and
\* the walk over its ancestors has been made
C31_Witness ==
    /\ resolved.tile = <<2, 2, 2>>
    /\ ~resolved.direct
    /\ Cardinality({i \in 1..4 : children(<<2, 2, 2>>)[i] \in resolved.placed}) = 3
    /\ Len(resolved.ancestors) = 2

\* the k-th tile above a tile
Ancestor(tile, k) == <<tile[1] \div 2 ^ k, tile[2] \div 2 ^ k, tile[3] - k>>

\* the walk over the ancestors of a tile ends at this one: it is placed in
\* this frame already or it has a drawable
EndsWalk(id) == id \in DOMAIN next_draw_cache \/ HasDrawable(id)

\* C32: the walk over the ancestors of a visible tile visits the parents in
\* order from zoom - 1 on, ends at the first one that is placed in this frame
\* already or has a drawable, else after the tile of zoom 0; it places that
\* one if it was not placed, and no other ancestor; for each ancestor it
\* passes it publishes one Allocate when the entry is Loaded and none
\* otherwise, and none for the one it ends at or for those it does not reach.
C32_AncestorWalk ==
    [][\A p \in pending : Iteration(p) /\ resolved'.ancestors # <<>> =>
          LET walk == resolved'.ancestors
              last == walk[Len(walk)]
          IN  /\ Len(walk) <= p[1][3]
              /\ \A k \in 1..Len(walk) : walk[k] = Ancestor(p[1], k)
              /\ \A k \in 1..(Len(walk) - 1) : ~EndsWalk(walk[k])
              /\ EndsWalk(last) \/ last[3] = 0
              /\ resolved'.placed \cap Ancestors(p[1]) =
                    IF HasDrawable(last) /\ last \notin DOMAIN next_draw_cache
                    THEN {last} ELSE {}
              /\ DOMAIN next_draw_cache' \cap Ancestors(p[1]) =
                    (DOMAIN next_draw_cache \cap Ancestors(p[1]))
                       \cup (IF HasDrawable(last) THEN {last} ELSE {})
              /\ \A a \in Ancestors(p[1]) :
                    CopiesIn(Allocate(a), published') =
                       CopiesIn(Allocate(a), published)
                          + (IF /\ \E k \in 1..Len(walk) : walk[k] = a
                                /\ ~EndsWalk(a)
                                /\ cache[a].state = "Loaded"
                             THEN 1 ELSE 0)]_vars

\* a walk has passed the parent, whose entry is Loaded and for which an
\* Allocate is published, and has placed the tile of zoom 0
C32_Witness ==
    /\ resolved.ancestors = << <<1, 1, 1>>, ZERO >>
    /\ cache[<<1, 1, 1>>].state = "Loaded"
    /\ BagIn(Allocate(<<1, 1, 1>>), published)
    /\ resolved.placed \cap {<<1, 1, 1>>, ZERO} = {ZERO}
    /\ ZERO \in DOMAIN next_draw_cache

\* the tiles an iteration for the tile can place
Relatives(tile) == {tile} \cup {children(tile)[i] : i \in 1..4} \cup Ancestors(tile)

\* C33: the draw resolution starts from an empty new draw cache; each
\* iteration adds placements of the tile, its children or its ancestors only,
\* each either taken out of the previous draw cache (with its handle and
\* allocation) or made from an Allocated entry of the tile cache, and leaves
\* the other entries of both draw caches as they are; at the end the widget's
\* draw cache is the new one, so that the entries of the previous draw cache
\* that were not taken over are gone.
C33_DrawCacheOfTheCycle ==
    [][/\ pending = NotDrawing /\ pending' # NotDrawing =>
             next_draw_cache' = <<>> /\ draw_cache' = draw_cache
       /\ \A p \in pending : Iteration(p) =>
             LET added == DOMAIN next_draw_cache' \ DOMAIN next_draw_cache
             IN  /\ DOMAIN next_draw_cache \subseteq DOMAIN next_draw_cache'
                 /\ \A id \in DOMAIN next_draw_cache : next_draw_cache'[id] = next_draw_cache[id]
                 /\ added = resolved'.placed
                 /\ added \subseteq Relatives(p[1])
                 /\ \A id \in added :
                       IF id \in DOMAIN draw_cache
                       THEN /\ next_draw_cache'[id].handle = draw_cache[id].handle
                            /\ next_draw_cache'[id].alloc = draw_cache[id].alloc
                       ELSE /\ cache[id].state = "Allocated"
                            /\ next_draw_cache'[id].handle = cache[id].handle
                            /\ next_draw_cache'[id].alloc = cache[id].alloc
                 /\ DOMAIN draw_cache' = DOMAIN draw_cache \ added
                 /\ \A id \in DOMAIN draw_cache' : draw_cache'[id] = draw_cache[id]
       /\ pending = {} /\ pending' = NotDrawing =>
             /\ draw_cache' = next_draw_cache
             /\ DOMAIN draw_cache' \cap DOMAIN draw_cache = {}
             /\ DOMAIN draw_cache' \subseteq UNION {Relatives(p[1]) : p \in visible_tiles}]_vars

\* a cycle is at its end that has placed a visible tile from its Allocated
\* entry and its neighbour's ancestor, and is about to drop the three
\* children the previous draw cache held
C33_Witness ==
    /\ pending = {}
    /\ DOMAIN draw_cache = {children(<<2, 2, 2>>)[i] : i \in 1..3}
    /\ cache[<<2, 2, 2>>].state = "Allocated"
    /\ DOMAIN next_draw_cache = {<<2, 2, 2>>, ZERO}

(***************************************************************************)
(* The engine alone, with results from its own tasks only: the application *)
(* passes requests (Prune, Load, Allocate, Deallocate) about the wanted     *)
(* tile, and every Loaded, LoadFailed, Allocated and AllocFailed is the     *)
(* output of a fetch or an allocation the engine has started.  The cache    *)
(* is at the prune threshold, so that prunes remove entries.                *)
(***************************************************************************)
Requests(T) ==
    {Prune} \cup {Load(id) : id \in T} \cup {Allocate(id) : id \in T}
    \cup {Deallocate(id) : id \in T}

InitOwn ==
    /\ Start(PRUNE_THRESH)
    /\ wanted \in Tiles

NextOwn ==
    \/ \E m \in Requests(Tiles) : Submit(m)
    \/ \E t \in Running : RunDone(t)
    \/ \E t \in Running : FetchAcquire(t)
    \/ \E t \in Running, h \in Handles : FetchOk(t, h)
    \/ \E t \in Running : FetchErr(t)
    \/ \E t \in Running, a \in Allocs : AllocOk(t, a)
    \/ \E t \in Running : AllocErr(t)
    \/ \E t \in Running : SleepDone(t)
    \/ \E t \in Instants : Tick(t)

SpecOwn == InitOwn /\ [][NextOwn]_vars

\* the number of running tasks of a kind ("fetch", "alloc") for a tile
InFlight(kind, id) ==
    BagCardinality([t \in {u \in Running : u.kind = kind /\ u.m.id = id} |-> tasks[t]])

\* C34: with results from the engine's own tasks only, a tile has one fetch
\* in flight while its entry is Loading and none otherwise, one allocation
\* in flight while its entry is Allocating and none otherwise; every Loaded
\* and LoadFailed finds the entry Loading and every Allocated and AllocFailed
\* finds it Allocating.
C34_OneInFlight ==
    /\ \A id \in AllTiles :
          /\ InFlight("fetch", id) = (IF cache[id].state = "Loading" THEN 1 ELSE 0)
          /\ InFlight("alloc", id) = (IF cache[id].state = "Allocating" THEN 1 ELSE 0)
    /\ msg.type \in {"Loaded", "LoadFailed"} => prev.state = "Loading"
    /\ msg.type \in {"Allocated", "AllocFailed"} => prev.state = "Allocating"

\* after a prune that removed entries, and with a request of the application
\* running beside it, an allocation of the wanted tile has ended and found
\* the entry Allocating
C34_Witness ==
    /\ msg.type = "Allocated"
    /\ prev.state = "Allocating"
    /\ cache[wanted].state = "Allocated"
    /\ pruned > 0
    /\ \E t \in Running : t.kind = "done"

\* every HTTP request and every renderer allocation the engine has started
\* completes (a fetch acquires its permit, then succeeds or fails), and every
\* message a task holds ready is processed
FairOwn ==
    /\ SpecOwn
    /\ WF_vars(\E t \in Running : FetchAcquire(t))
    /\ WF_vars(\E t \in Running : FetchErr(t) \/ \E h \in Handles : FetchOk(t, h))
    /\ WF_vars(\E t \in Running : AllocErr(t) \/ \E a \in Allocs : AllocOk(t, a))
    /\ WF_vars(\E t \in Running : RunDone(t))

\* C35: under this fairness an entry that is Loading (that of the wanted
\* tile, the one tile the run has messages about) becomes Loaded or absent, and leaves Loading in no other way; an entry that is Allocating
\* becomes Allocated or Loaded, and leaves Allocating in no other way.
C35_NoEntryStuck ==
    /\ cache[wanted].state = "Loading" ~> cache[wanted].state \in {"Loaded", "Absent"}
    /\ cache[wanted].state = "Allocating" ~> cache[wanted].state \in {"Allocated", "Loaded"}
    /\ [][\A id \in AllTiles :
             /\ cache[id].state = "Loading" =>
                   cache'[id].state \in {"Loading", "Loaded", "Absent"}
             /\ cache[id].state = "Allocating" =>
                   cache'[id].state \in {"Allocating", "Allocated", "Loaded"}]_vars

\* a failed allocation has returned the entry from Allocating to Loaded
C35_Witness ==
    /\ msg.type = "AllocFailed"
    /\ prev.state = "Allocating"
    /\ cache[wanted].state = "Loaded"
    /\ cache[wanted].handle = prev.handle

\* C36: every pair of the result of flood_tiles holds a tile of the zoom of
\* the start tile with x and y on the grid of that zoom, and the rectangle
\* of that tile, which intersects the expanded viewport; a tile the search
\* has visited and rejected is not in the result.
C36_FloodSound ==
    /\ [](\A p \in visible_tiles :
             /\ p[1][3] = SearchZoom
             /\ p[1][1] \in 0..(total_tiles(SearchZoom) - 1)
             /\ p[1][2] \in 0..(total_tiles(SearchZoom) - 1)
             /\ p[2] = position_of_tile(view, p[1])
             /\ intersects(flood_area(view), p[2]))
    /\ [][visible_tiles' # visible_tiles =>
             \A id \in DOMAIN tiles : ~tiles[id].some => id \notin {p[1] : p \in visible_tiles'}]_vars

\* a search has returned tiles of the last column of the grid after it has
\* rejected others
C36_Witness ==
    /\ Returned
    /\ Visible # {}
    /\ \A id \in Visible : id[1] = total_tiles(SearchZoom) - 1
    /\ BagCardinality(inserts) >= Cardinality(Visible) + 2

(***************************************************************************)
(* The kinematics of the widget: the match on the event in                 *)
(* MapWidget::update (src/src/map_widget.rs 310-563).  The application     *)
(* has set on_update and hands the published viewpoint back, as             *)
(* examples/minimal.rs does, and has set no on_click.  The rest of update   *)
(* is the visibility search and the draw resolution above; they read and    *)
(* write neither the movement nor the zoom state.  The arithmetic of the    *)
(* code is in f32 and f64; here a velocity is a whole number of px/s and a  *)
(* quotient is cut towards zero.                                            *)
(***************************************************************************)
\* units per pixel and per zoom level, and ms per second
Milli == 1000
\* the thresholds of the release and of the momentum, the time constants of
\* the smoothing and of the decay (ms), and the discrete zoom
RELEASE_SPEED == 10
RELEASE_DELAY == 50
MOMENTUM_CUTOFF == 60
SMOOTHING_TAU == 20
DECAY_TAU == 200
ZOOM_DURATION == 250
ZOOM_STEP == 1000
\* no click is made whose target is more than this many levels from the
\* zoom 16, and no press when the viewpoint is more than this many pixels
\* from the centre of the world
MaxLevels == 2
MaxPan == 1

Abs(a) == IF a < 0 THEN -a ELSE a
\* a quotient of integers, cut towards zero
Quotient(n, d) == IF n >= 0 THEN n \div d ELSE -((-n) \div d)

\* f32::sqrt, cut to a whole number (of the square of a speed below
\* 1024 px/s): first the multiple of 32 below the root, then the root
sqrt(n) ==
    LET h == CHOOSE k \in 0..31 : (32 * k) * (32 * k) <= n /\ n < (32 * k + 32) * (32 * k + 32)
    IN  CHOOSE r \in (32 * h)..(32 * h + 31) : r * r <= n /\ n < (r + 1) * (r + 1)

\* layout.bounds() of the widget and its centre, in px
BoundsOfWidget == [x |-> 0, y |-> 0, width |-> 800, height |-> 600]
CenterOfWidget == <<400, 300>>

\* RoundCeil::round_ceil of a length in thousandths of a pixel
round_ceil_milli(q) == Milli * ((2 * q + Milli) \div (2 * Milli))

\* Projector::mercator_from_screen_space of a point of the screen, as the
\* point of pixel space (thousandths of a pixel) at the zoom of the viewpoint
mercator_from_screen_space(position, point) ==
    <<round_ceil_milli(position[1]) + Milli * (point[1] - CenterOfWidget[1]),
      round_ceil_milli(position[2]) + Milli * (point[2] - CenterOfWidget[2])>>

\* the event of the step
Event(op, arg) == last_call' = [op |-> op, arg |-> arg, ret |-> <<>>]

\* what the match on the event leaves alone
Motion ==
    /\ UNCHANGED <<zoom_value, coord>>
    /\ UNCHANGED <<draw_cache, next_draw_cache, pending, published, resolved>>
    /\ UNCHANGED <<engine, flood>>

\* Event::Mouse(ButtonPressed(Left)) with the cursor at `point`, NoPoint when
\* it is not over the bounds
ButtonPressed(point) ==
    /\ Abs(viewpoint.position[1]) <= MaxPan * Milli
    /\ Abs(viewpoint.position[2]) <= MaxPan * Milli
    /\ movement' =
          IF point # NoPoint
          THEN [state |-> "Dragging", velocity |-> <<0, 0>>, last_time |-> now,
                mercator |-> mercator_from_screen_space(viewpoint.position, point),
                start_cursor |-> point, last_cursor |-> point]
          ELSE movement
    /\ Event("ButtonPressed", <<>>)
    /\ UNCHANGED <<zoom_state, cursor, viewpoint>>
    /\ Motion

ReleasedAtAnySpeed ==
    IF movement.state = "Dragging"
    THEN IF now - movement.last_time < RELEASE_DELAY
         THEN [Idle EXCEPT !.state = "Momentum", !.velocity = movement.velocity,
                           !.last_time = now]
         ELSE Idle
    ELSE movement

\* the movement a release of the left button leaves
Released ==
    IF movement.state = "Dragging"
    THEN IF /\ \/ Abs(movement.velocity[1]) > RELEASE_SPEED
               \/ Abs(movement.velocity[2]) > RELEASE_SPEED
            /\ now - movement.last_time < RELEASE_DELAY
         THEN [Idle EXCEPT !.state = "Momentum", !.velocity = movement.velocity,
                           !.last_time = now]
         ELSE Idle
    ELSE movement

\* Event::Mouse(ButtonReleased(Left))
ButtonReleased ==
    /\ movement' = Released
    /\ Event("ButtonReleased", <<>>)
    /\ UNCHANGED <<zoom_state, cursor, viewpoint>>
    /\ Motion

\* the smoothed velocity after a move of delta_pos px in delta_time ms:
\* velocity * alpha + (delta_pos / delta_time) * (1 - alpha) with
\* alpha = tau / (tau + delta_time)
Smoothed(velocity, delta_pos, delta_time) ==
    Quotient(SMOOTHING_TAU * velocity + Milli * delta_pos, SMOOTHING_TAU + delta_time)

\* Event::Mouse(CursorMoved { position })
CursorMoved(position) ==
    /\ cursor' = position
    /\ IF movement.state = "Dragging"
       THEN LET cursor_position == mercator_from_screen_space(viewpoint.position, position)
                delta_time == now - movement.last_time
            IN  /\ viewpoint' =
                      [viewpoint EXCEPT !.position =
                          <<viewpoint.position[1] + movement.mercator[1] - cursor_position[1],
                            viewpoint.position[2] + movement.mercator[2] - cursor_position[2]>>]
                /\ movement' =
                      IF delta_time > 0
                      THEN [movement EXCEPT
                               !.velocity =
                                   <<Smoothed(movement.velocity[1],
                                              position[1] - movement.last_cursor[1], delta_time),
                                     Smoothed(movement.velocity[2],
                                              position[2] - movement.last_cursor[2], delta_time)>>,
                               !.last_cursor = position,
                               !.last_time = now]
                      ELSE movement
       ELSE UNCHANGED <<movement, viewpoint>>
    /\ Event("CursorMoved", <<>>)
    /\ UNCHANGED zoom_state
    /\ Motion

\* Event::Mouse(CursorLeft)
CursorLeft ==
    /\ cursor' = NoPoint
    /\ Event("CursorLeft", <<>>)
    /\ UNCHANGED <<movement, zoom_state, viewpoint>>
    /\ Motion

\* f64::round, floor and ceil of a positive zoom in thousandths of a level
round_zoom(z) == Milli * ((2 * z + Milli) \div (2 * Milli))
floor_zoom(z) == Milli * (z \div Milli)
ceil_zoom(z) == Milli * ((z + Milli - 1) \div Milli)


TargetRestarting(y) ==
    LET current_zoom == viewpoint.zoom
        nearest == round_zoom(current_zoom)
    IN  IF Abs(nearest - current_zoom) < 10 * ZOOM_STEP THEN nearest + y * ZOOM_STEP
        ELSE IF y > 0 THEN floor_zoom(current_zoom) + ZOOM_STEP
        ELSE ceil_zoom(current_zoom) - ZOOM_STEP

\* the target of a discrete click of y lines
Target(y) ==
    LET current_zoom == viewpoint.zoom
        nearest == round_zoom(current_zoom)
    IN  IF zoom_state.kind = "Discrete" THEN zoom_state.end_zoom + y * ZOOM_STEP
        ELSE IF Abs(nearest - current_zoom) < 10 * ZOOM_STEP THEN nearest + y * ZOOM_STEP
        ELSE IF y > 0 THEN floor_zoom(current_zoom) + ZOOM_STEP
        ELSE ceil_zoom(current_zoom) - ZOOM_STEP

\* Event::Mouse(WheelScrolled { delta: Lines { y } }) with the cursor off the
\* bounds (point is None)
WheelScrolledLines(y) ==
    /\ Abs(Target(y) - 16 * Milli) <= MaxLevels * Milli
    /\ zoom_state' = [kind |-> "Discrete", start_zoom |-> viewpoint.zoom,
                      end_zoom |-> Target(y), start_time |-> now,
                      duration |-> ZOOM_DURATION]
    /\ Event("WheelScrolled", y)
    /\ UNCHANGED <<movement, cursor, viewpoint>>
    /\ Motion

\* Zoom::zoom_by on a zoom in thousandths of a level; zoom_amt is cut to one
\* thousandth
zoom_on_center(z, zoom_amt) ==
    IF z + zoom_amt >= (MIN_ZOOM * Milli) \div 2 /\ z + zoom_amt <= (MAX_ZOOM * Milli) \div 2
    THEN z + zoom_amt
    ELSE z

\* (end_zoom - start_zoom) * ease with ease = 1 - (1 - t)^3 and
\* t = min(elapsed / duration, 1)
Eased(span, elapsed, duration) ==
    LET e == Min(elapsed, duration)
        g == gcd(duration, e)
        n == e \div g
        d == duration \div g
    IN  Quotient(span * (d ^ 3 - (d - n) ^ 3), d ^ 3)

\* t >= 1.0
Ended(elapsed, duration) == elapsed >= duration

\* the velocity of the momentum after delta ms: velocity * alpha with
\* alpha = dynamic_tau / (dynamic_tau + delta) and
\* dynamic_tau = 0.2 + norm_velocity * 0.00005 (here in units of 0.05 ms)
Decayed(velocity, delta) ==
    LET dynamic_tau == 20 * DECAY_TAU + sqrt(velocity[1] ^ 2 + velocity[2] ^ 2)
    IN  <<Quotient(velocity[1] * dynamic_tau, dynamic_tau + 20 * delta),
          Quotient(velocity[2] * dynamic_tau, dynamic_tau + 20 * delta)>>

CutOffBelowRelease(velocity) ==
    Abs(velocity[1]) < RELEASE_SPEED /\ Abs(velocity[2]) < RELEASE_SPEED

\* "Low velocity cutoff to stop the momentum move"
CutOff(velocity) ==
    Abs(velocity[1]) < MOMENTUM_CUTOFF /\ Abs(velocity[2]) < MOMENTUM_CUTOFF

\* the arm of Event::Window(RedrawRequested(at)): the zoom animation, then the
\* momentum
Redrawn(at) ==
    /\ IF zoom_state.kind = "Discrete"
       THEN LET elapsed == Max(0, at - zoom_state.start_time)
                current == zoom_state.start_zoom
                              + Eased(zoom_state.end_zoom - zoom_state.start_zoom,
                                      elapsed, zoom_state.duration)
            IN  /\ viewpoint' =
                      [position |->
                          IF movement.state = "Momentum"
                          THEN <<viewpoint.position[1]
                                    - movement.velocity[1] * Max(0, at - movement.last_time),
                                 viewpoint.position[2]
                                    - movement.velocity[2] * Max(0, at - movement.last_time)>>
                          ELSE viewpoint.position,
                       zoom |-> zoom_on_center(viewpoint.zoom, current - viewpoint.zoom)]
                /\ zoom_state' = IF Ended(elapsed, zoom_state.duration)
                                 THEN NoZoomState ELSE zoom_state
       ELSE /\ viewpoint' =
                  [viewpoint EXCEPT !.position =
                      IF movement.state = "Momentum"
                      THEN <<viewpoint.position[1]
                                - movement.velocity[1] * Max(0, at - movement.last_time),
                             viewpoint.position[2]
                                - movement.velocity[2] * Max(0, at - movement.last_time)>>
                      ELSE viewpoint.position]
            /\ UNCHANGED zoom_state
    /\ movement' =
          IF movement.state = "Momentum"
          THEN LET velocity == Decayed(movement.velocity, Max(0, at - movement.last_time))
               IN  IF CutOff(velocity) THEN Idle
                   ELSE [movement EXCEPT !.velocity = velocity, !.last_time = at]
          ELSE movement
    /\ Event("RedrawRequested", <<>>)
    /\ UNCHANGED cursor

\* Event::Window(RedrawRequested(at)) with at = now
RedrawRequested ==
    /\ Redrawn(now)
    /\ Motion

\* the next frame of a momentum: Event::Window(RedrawRequested(at)) with
\* at = now + step (ms); the redraw of a momentum asks for the next one
Frame(step) ==
    /\ movement.state = "Momentum"
    /\ now' = now + step
    /\ Redrawn(now + step)
    /\ UNCHANGED <<wanted, cache, others, cleanup_timer, permits, tasks, wrapped,
                   panicked, msg, prev, ret, pruned, result>>
    /\ UNCHANGED <<zoom_value, coord>>
    /\ UNCHANGED <<draw_cache, next_draw_cache, pending, published, resolved>>
    /\ UNCHANGED flood

\* time passes
Later(t) ==
    /\ t > now
    /\ now' = t
    /\ last_call' = [op |-> "none", arg |-> <<>>, ret |-> <<>>]
    /\ UNCHANGED <<wanted, cache, others, cleanup_timer, permits, tasks, wrapped,
                   panicked, msg, prev, ret, pruned, result>>
    /\ UNCHANGED <<zoom_value, coord>>
    /\ UNCHANGED <<flood, draw>>

\* the positions of the cursor and the instants of the pan scenario
PanPoints == {<<400, 300>>, <<401, 300>>, <<403, 300>>, <<400, 303>>}
PanInstants == {10, 60, 110, 160}

InitPan ==
    /\ Start(0)
    /\ wanted = NoTile

NextPan ==
    \/ \E point \in PanPoints \cup {NoPoint} : ButtonPressed(point)
    \/ ButtonReleased
    \/ \E position \in PanPoints : CursorMoved(position)
    \/ CursorLeft
    \/ RedrawRequested
    \/ \E t \in PanInstants : Later(t)

SpecPan == InitPan /\ [][NextPan]_vars

\* the clicks of the wheel and the instants of the zoom scenario
WheelLines == {-1, 1, 2}
WheelInstants == {50, 240, 250, 300, 500}

NextWheel ==
    \/ \E y \in WheelLines : WheelScrolledLines(y)
    \/ RedrawRequested
    \/ \E t \in WheelInstants : Later(t)

SpecWheel == InitPan /\ [][NextWheel]_vars

\* the positions of the cursor, the instants of the drag and the time steps
\* of the frames (ms) of the glide scenario
GlidePoints == {<<400, 300>>, <<403, 300>>, <<402, 304>>}
GlideInstants == {10, 20}
FrameSteps == {16, 100}

NextGlide ==
    \/ \E point \in GlidePoints : ButtonPressed(point)
    \/ \E position \in GlidePoints : CursorMoved(position)
    \/ ButtonReleased
    \/ RedrawRequested
    \/ \E t \in GlideInstants : Later(t)
    \/ \E step \in FrameSteps : Frame(step)

SpecGlide == InitPan /\ [][NextGlide]_vars

\* a momentum asks for its next redraw (needs_redraw), and the runtime
\* delivers it
FairGlide == SpecGlide /\ WF_vars(\E step \in FrameSteps : Frame(step))

(***************************************************************************)
(* Properties of the kinematics                                            *)
(***************************************************************************)
\* the step is the handling of the event `op`
Handling(op) == last_call'.op = op

\* C37: a release of the left button while Dragging leaves Momentum, with
\* the smoothed velocity, exactly when a component of that velocity is above
\* 10 px/s in magnitude and the last move of the cursor is less than 50 ms
\* old, and leaves Idle otherwise; a release in Idle or Momentum leaves the
\* movement as it is.
C37_Release ==
    [][Handling("ButtonReleased") =>
          IF movement.state = "Dragging"
          THEN IF /\ \/ Abs(movement.velocity[1]) > 10
                     \/ Abs(movement.velocity[2]) > 10
                  /\ now - movement.last_time < 50
               THEN /\ movement'.state = "Momentum"
                    /\ movement'.velocity = movement.velocity
                    /\ movement'.last_time = now
               ELSE movement' = Idle
          ELSE movement' = movement]_vars

\* a drag has been released into a momentum whose velocity has one component
\* above the threshold and one below
C37_Witness ==
    /\ last_call.op = "ButtonReleased"
    /\ movement.state = "Momentum"
    /\ Abs(movement.velocity[1]) > 10
    /\ Abs(movement.velocity[2]) <= 10
    /\ movement.last_time = now
\* the step is a redraw of a momentum at an instant after its last time
Ticking ==
    /\ Handling("RedrawRequested")
    /\ movement.state = "Momentum"
    /\ now' > movement.last_time

\* the movement a tick leaves when it has decayed the velocity to `velocity`
Ticked(velocity) ==
    IF Abs(velocity[1]) < 60 /\ Abs(velocity[2]) < 60 THEN Idle
    ELSE [Idle EXCEPT !.state = "Momentum", !.velocity = velocity, !.last_time = now']

\* C38 as stated: every tick of a momentum with a positive time step strictly
\* reduces the magnitude of both components of the velocity, leaves Idle
\* when both are then below the cutoff, and the momentum always ends.
C38_BothComponentsReduced ==
    /\ [][Ticking =>
             LET velocity == Decayed(movement.velocity, now' - movement.last_time)
             IN  /\ Abs(velocity[1]) < Abs(movement.velocity[1])
                 /\ Abs(velocity[2]) < Abs(movement.velocity[2])
                 /\ movement' = Ticked(velocity)]_vars
    /\ (movement.state = "Momentum") ~> (movement.state # "Momentum")

\* C38: every tick of a momentum with a time step of a millisecond or more
\* strictly reduces the magnitude of every component of the velocity that is
\* not zero and leaves a zero component zero; it leaves Idle exactly when
\* both components are then below the cutoff of 60 px/s, and the momentum
\* with the decayed velocity and the instant of the tick otherwise; under
\* repeated ticks the momentum always ends.
C38_MomentumEnds ==
    /\ [][Ticking =>
             LET velocity == Decayed(movement.velocity, now' - movement.last_time)
             IN  /\ \A i \in {1, 2} :
                        IF movement.velocity[i] = 0 THEN velocity[i] = 0
                        ELSE Abs(velocity[i]) < Abs(movement.velocity[i])
                 /\ movement' = Ticked(velocity)]_vars
    /\ (movement.state = "Momentum") ~> (movement.state # "Momentum")

\* a momentum of a horizontal flick goes on after a frame: its horizontal
\* speed is still at the cutoff or above, its vertical speed is zero
C38_Witness ==
    /\ last_call.op = "RedrawRequested"
    /\ movement.state = "Momentum"
    /\ movement.last_time = now
    /\ now > 20
    /\ Abs(movement.velocity[1]) >= 60
    /\ movement.velocity[2] = 0

\* C39: a click of y lines of the wheel during a Discrete zoom animation
\* starts a Discrete animation from the current zoom whose target is the end
\* zoom of the running one plus y times the step size, timed from the click;
\* a redraw clears the zoom state when 250 ms or more have passed since the
\* last click and leaves it otherwise; nothing else changes a running
\* animation.
C39_TargetsAccumulate ==
    [][/\ Handling("WheelScrolled") =>
             /\ zoom_state'.kind = "Discrete"
             /\ zoom_state'.start_time = now
             /\ zoom_state'.start_zoom = viewpoint.zoom
             /\ zoom_state'.duration = 250
             /\ zoom_state.kind = "Discrete" =>
                   zoom_state'.end_zoom = zoom_state.end_zoom + last_call'.arg * 1000
       /\ Handling("RedrawRequested") /\ zoom_state.kind = "Discrete" =>
             zoom_state' = IF now - zoom_state.start_time >= 250 THEN NoZoomState
                           ELSE zoom_state
       /\ zoom_state.kind = "Discrete" /\ zoom_state' # zoom_state =>
             Handling("WheelScrolled") \/ Handling("RedrawRequested")]_vars

\* a second click has come 50 ms or more after the first, when a redraw had
\* moved the zoom part of the way from 16 to 17: its target is 18
C39_Witness ==
    /\ last_call.op = "WheelScrolled"
    /\ zoom_state.kind = "Discrete"
    /\ zoom_state.start_time = now
    /\ now >= 50
    /\ zoom_state.start_zoom > 16 * 1000
    /\ zoom_state.start_zoom < 17 * 1000
    /\ zoom_state.end_zoom = 18 * 1000
====
